---------------------------- MODULE Spec2Model ----------------------------
(***************************************************************************)
(* Model of the scoring and classification pipeline of ai-guardrail        *)
(* (backend/app/utils/calculations.py and                                  *)
(* backend/app/services/statistical_analyzer.py).                          *)
(*                                                                         *)
(* The calculators are pure functions.  Each one is an operator that       *)
(* follows its source statement by statement, and each has a               *)
(* specification whose initial states draw the arguments of one call and   *)
(* whose action performs the call:                                         *)
(*    pc    "call" before the function ran, "done" after it returned       *)
(*    fn    the function called                                            *)
(*    args  its arguments                                                  *)
(*    ret   what it returned                                               *)
(* The evaluations router (backend/app/routers/evaluations.py) is a state  *)
(* machine of its own over the database tables, the requests and the       *)
(* background tasks.                                                       *)
(*                                                                         *)
(* Numbers.  calculate_severity_score, calculate_confidence,               *)
(* calculate_zone_status and calculate_baseline are computed over exact    *)
(* rationals [num, den] in lowest terms.  calculate_overall_score is       *)
(* computed in IEEE-754 binary64 with round-to-nearest-even, as CPython    *)
(* computes it, because its result depends on the rounding of each         *)
(* operation.                                                              *)
(***************************************************************************)
EXTENDS Integers, Sequences, FiniteSets, TLC

VARIABLES pc, fn, args, ret

\* The evaluations router works on a database and on background tasks:
\*    db_evaluations      the committed rows of table evaluations; the row
\*                        created k-th is db_evaluations[k]
\*    db_findings         the committed rows of table heuristic_findings
\*    db_recommendations  the committed rows of table recommendations
\*    requests            the HTTP requests received so far
\*    tasks               the background tasks added so far
VARIABLES db_evaluations, db_findings, db_recommendations, requests, tasks

service == <<db_evaluations, db_findings, db_recommendations, requests, tasks>>

vars == <<pc, fn, args, ret, service>>

\* ret before the function returned
NoResult == [pending |-> TRUE]

\* the specifications of single functions have no database and no requests
NoService ==
    /\ db_evaluations = <<>>
    /\ db_findings = <<>>
    /\ db_recommendations = <<>>
    /\ requests = <<>>
    /\ tasks = <<>>

-----------------------------------------------------------------------------
(* Exact rational arithmetic *)

Abs(x) == IF x < 0 THEN -x ELSE x

RECURSIVE GCD(_, _)
GCD(a, b) == IF b = 0 THEN a ELSE GCD(b, a % b)

\* n/d in lowest terms with a positive denominator (d # 0)
Rat(n, d) ==
    LET g == GCD(Abs(n), Abs(d))
        s == IF d < 0 THEN -1 ELSE 1
    IN  [num |-> (s * n) \div g, den |-> (s * d) \div g]

RInt(n) == [num |-> n, den |-> 1]
RAdd(a, b) == Rat(a.num * b.den + b.num * a.den, a.den * b.den)
RSub(a, b) == Rat(a.num * b.den - b.num * a.den, a.den * b.den)
RMul(a, b) == Rat(a.num * b.num, a.den * b.den)
RDiv(a, b) == Rat(a.num * b.den, a.den * b.num)
RLe(a, b) == a.num * b.den <= b.num * a.den
RLt(a, b) == a.num * b.den < b.num * a.den
RGe(a, b) == RLe(b, a)
RGt(a, b) == RLt(b, a)
RMin(a, b) == IF RLe(a, b) THEN a ELSE b

-----------------------------------------------------------------------------
(* models/heuristic.py: HeuristicType, SeverityLevel *)

HeuristicType ==
    {"anchoring", "loss_aversion", "sunk_cost", "confirmation_bias",
     "availability_heuristic"}

SeverityLevel == {"low", "medium", "high", "critical"}

-----------------------------------------------------------------------------
(* utils/calculations.py: calculate_severity_score *)

thresholds ==
    [anchoring |->
        [critical |-> RInt(50), high |-> RInt(40),
         medium |-> RInt(20), low |-> RInt(10)],
     loss_aversion |->
        [critical |-> Rat(30, 10), high |-> Rat(25, 10),
         medium |-> Rat(18, 10), low |-> Rat(13, 10)],
     sunk_cost |->
        [critical |-> RInt(80), high |-> RInt(70),
         medium |-> RInt(50), low |-> RInt(30)],
     confirmation_bias |->
        [critical |-> RInt(75), high |-> RInt(65),
         medium |-> RInt(50), low |-> RInt(35)],
     availability_heuristic |->
        [critical |-> RInt(60), high |-> RInt(50),
         medium |-> RInt(35), low |-> RInt(20)]]

\* thresholds.get(heuristic_type, thresholds["anchoring"])
heuristic_thresholds(heuristic_type) ==
    IF heuristic_type \in DOMAIN thresholds
    THEN thresholds[heuristic_type]
    ELSE thresholds["anchoring"]

\* Variants of calculate_severity_score, each with one slip:
\*   strict    the band comparisons are > instead of >=
\*   clamp     whether min(score, 100.0) is applied
\*   lowDen    the threshold the low band divides by ("medium" in the source)
SeverityVariant(raw_metric, heuristic_type, strict, clamp, lowDen) ==
    LET t == heuristic_thresholds(heuristic_type)
        AtLeast(a, b) == IF strict THEN RGt(a, b) ELSE RGe(a, b)
        r == IF AtLeast(raw_metric, t.critical)
             THEN [severity_level |-> "critical",
                   score |-> RAdd(RInt(75),
                                  RDiv(RSub(raw_metric, t.critical), RInt(2)))]
             ELSE IF AtLeast(raw_metric, t.high)
             THEN [severity_level |-> "high",
                   score |-> RAdd(RInt(50),
                                  RMul(RDiv(RSub(raw_metric, t.high),
                                            RSub(t.critical, t.high)),
                                       RInt(25)))]
             ELSE IF AtLeast(raw_metric, t.medium)
             THEN [severity_level |-> "medium",
                   score |-> RAdd(RInt(25),
                                  RMul(RDiv(RSub(raw_metric, t.medium),
                                            RSub(t.high, t.medium)),
                                       RInt(25)))]
             ELSE [severity_level |-> "low",
                   score |-> RMul(RDiv(raw_metric, t[lowDen]), RInt(25))]
    IN  [score |-> IF clamp THEN RMin(r.score, RInt(100)) ELSE r.score,
         level |-> r.severity_level]

calculate_severity_score_strict(raw_metric, heuristic_type) ==
    SeverityVariant(raw_metric, heuristic_type, TRUE, TRUE, "medium")

calculate_severity_score_unclamped(raw_metric, heuristic_type) ==
    SeverityVariant(raw_metric, heuristic_type, FALSE, FALSE, "medium")

calculate_severity_score_lowdiv(raw_metric, heuristic_type) ==
    SeverityVariant(raw_metric, heuristic_type, FALSE, TRUE, "low")

calculate_severity_score(raw_metric, heuristic_type) ==
    LET t == heuristic_thresholds(heuristic_type)
        r == IF RGe(raw_metric, t.critical)
             THEN [severity_level |-> "critical",
                   score |-> RAdd(RInt(75),
                                  RDiv(RSub(raw_metric, t.critical), RInt(2)))]
             ELSE IF RGe(raw_metric, t.high)
             THEN [severity_level |-> "high",
                   score |-> RAdd(RInt(50),
                                  RMul(RDiv(RSub(raw_metric, t.high),
                                            RSub(t.critical, t.high)),
                                       RInt(25)))]
             ELSE IF RGe(raw_metric, t.medium)
             THEN [severity_level |-> "medium",
                   score |-> RAdd(RInt(25),
                                  RMul(RDiv(RSub(raw_metric, t.medium),
                                            RSub(t.high, t.medium)),
                                       RInt(25)))]
             ELSE [severity_level |-> "low",
                   score |-> RMul(RDiv(raw_metric, t.medium), RInt(25))]
    IN  [score |-> RMin(r.score, RInt(100)), level |-> r.severity_level]

\* raw metrics are drawn in tenths from -MinRawTenths/10 to MaxRawTenths/10
MinRawTenths == 30
MaxRawTenths == 1400

RawMetricInputs == {Rat(k, 10) : k \in (0 - MinRawTenths)..MaxRawTenths}

HeuristicTypeInputs == HeuristicType \cup {"unknown_type"}

InitSeverity ==
    /\ pc = "call"
    /\ fn = "calculate_severity_score"
    /\ args \in [raw_metric : RawMetricInputs,
                 heuristic_type : HeuristicTypeInputs]
    /\ ret = NoResult
    /\ NoService

CallSeverity ==
    /\ pc = "call"
    /\ fn = "calculate_severity_score"
    /\ ret' = calculate_severity_score(args.raw_metric, args.heuristic_type)
    /\ pc' = "done"
    /\ UNCHANGED <<fn, args, service>>

NextSeverity == CallSeverity

SpecSeverity == InitSeverity /\ [][NextSeverity]_vars

SeverityDone == pc = "done" /\ fn = "calculate_severity_score"

\* the straight line through (x0, y0) and (x1, y1), at x
Lerp(x0, x1, y0, y1, x) ==
    RAdd(y0, RDiv(RMul(RSub(y1, y0), RSub(x, x0)), RSub(x1, x0)))

\* C1: for every heuristic type and every raw_metric at or above the type's
\* critical threshold, the level is critical and the score is
\* min(100, 75 + (raw_metric - critical)/2), which lies in [75, 100];
\* severity(55, anchoring) = (77.5, critical).
C1_CriticalBand ==
    SeverityDone =>
        LET t == heuristic_thresholds(args.heuristic_type)
            raw == args.raw_metric
        IN  /\ RGe(raw, t.critical) =>
                /\ ret.level = "critical"
                /\ ret.score =
                     RMin(RInt(100),
                          RAdd(RInt(75), RDiv(RSub(raw, t.critical), RInt(2))))
                /\ RLe(RInt(75), ret.score)
                /\ RLe(ret.score, RInt(100))
            /\ (raw = RInt(55) /\ args.heuristic_type = "anchoring") =>
                ret = [score |-> Rat(155, 2), level |-> "critical"]

C1_Witness ==
    /\ SeverityDone
    /\ args = [raw_metric |-> RInt(55), heuristic_type |-> "anchoring"]
    /\ ret = [score |-> Rat(155, 2), level |-> "critical"]

\* C2: for every heuristic type and every raw_metric, negative values and
\* values far above the critical threshold included, the severity score lies
\* in [0, 100].
C2_ScoreInRange ==
    SeverityDone =>
        /\ RLe(RInt(0), ret.score)
        /\ RLe(ret.score, RInt(100))

C4_BoundaryGoesUp ==
    (SeverityDone /\ args.heuristic_type \in HeuristicType) =>
        LET t == heuristic_thresholds(args.heuristic_type)
            raw == args.raw_metric
        IN  /\ raw = t.critical => ret.level = "critical"
            /\ raw = t.high => ret.level = "high"
            /\ raw = t.medium => ret.level = "medium"
            /\ ret.level = "critical" <=> RGe(raw, t.critical)
            /\ ret.level = "high" <=> (RGe(raw, t.high) /\ RLt(raw, t.critical))
            /\ ret.level = "medium" <=> (RGe(raw, t.medium) /\ RLt(raw, t.high))
            /\ ret.level = "low" <=> RLt(raw, t.medium)

C4_Witness ==
    /\ SeverityDone
    /\ args = [raw_metric |-> Rat(25, 10), heuristic_type |-> "loss_aversion"]
    /\ ret.level = "high"


-----------------------------------------------------------------------------
(* utils/calculations.py: calculate_confidence *)

RECURSIVE ISqrtBetween(_, _, _)
\* the largest r in lo..hi with r*r <= n (lo*lo <= n < (hi+1)*(hi+1))
ISqrtBetween(n, lo, hi) ==
    IF lo = hi THEN lo
    ELSE LET mid == (lo + hi + 1) \div 2
         IN  IF mid * mid <= n
             THEN ISqrtBetween(n, mid, hi)
             ELSE ISqrtBetween(n, lo, mid - 1)

\* floor of the square root of n, 0 <= n < 2^30
ISqrt(n) == ISqrtBetween(n, 0, 32767)

IsSquare(n) == ISqrt(n) * ISqrt(n) = n

\* np.sqrt of a rational that is the square of a rational
RSqrt(a) == Rat(ISqrt(a.num), ISqrt(a.den))

HasRationalSqrt(a) == a.num >= 0 /\ IsSquare(a.num) /\ IsSquare(a.den)

\* calculate_confidence without the cap at 0.99
calculate_confidence_uncapped(detection_count, total_iterations) ==
    IF total_iterations = 0
    THEN RInt(0)
    ELSE RMul(Rat(detection_count, total_iterations),
              RSub(RInt(1), RDiv(RInt(1), RSqrt(RInt(total_iterations)))))

calculate_confidence(detection_count, total_iterations) ==
    IF total_iterations = 0
    THEN RInt(0)
    ELSE LET proportion == Rat(detection_count, total_iterations)
             confidence ==
                 RMul(proportion,
                      RSub(RInt(1),
                           RDiv(RInt(1), RSqrt(RInt(total_iterations)))))
         IN  RMin(confidence, Rat(99, 100))

\* iteration counts are the squares 0, 1, 4, ..., MaxIterationRoot^2, whose
\* square roots are rational
MaxIterationRoot == 200

IterationInputs == {k * k : k \in 0..MaxIterationRoot}

DetectionInputs(n) ==
    {d \in {0, 1, 2, 3, n \div 4, n \div 2, n - 1, n} : 0 <= d /\ d <= n}

InitConfidence ==
    /\ pc = "call"
    /\ fn = "calculate_confidence"
    /\ \E n \in IterationInputs : \E d \in DetectionInputs(n) :
          args = [detection_count |-> d, total_iterations |-> n]
    /\ ret = NoResult
    /\ NoService

CallConfidence ==
    /\ pc = "call"
    /\ fn = "calculate_confidence"
    /\ ret' = calculate_confidence(args.detection_count, args.total_iterations)
    /\ pc' = "done"
    /\ UNCHANGED <<fn, args, service>>

NextConfidence == CallConfidence

SpecConfidence == InitConfidence /\ [][NextConfidence]_vars

ConfidenceDone == pc = "done" /\ fn = "calculate_confidence"

\* C5: for all iterations > 0 and 0 <= detections <= iterations the
\* confidence lies in [0, 0.99]; it is 0 whenever detections = 0, and with
\* iterations = 0 the function returns 0 (it does not divide).
C5_ConfidenceRange ==
    (ConfidenceDone /\ 0 <= args.detection_count
                    /\ args.detection_count <= args.total_iterations) =>
        /\ args.total_iterations > 0 =>
              /\ RLe(RInt(0), ret)
              /\ RLe(ret, Rat(99, 100))
        /\ args.detection_count = 0 => ret = RInt(0)
        /\ args.total_iterations = 0 => ret = RInt(0)

\* 40000 detections in 40000 iterations: 1 - 1/200 = 0.995 is capped to 0.99
C5_Witness ==
    /\ ConfidenceDone
    /\ args = [detection_count |-> 40000, total_iterations |-> 40000]
    /\ ret = Rat(99, 100)

-----------------------------------------------------------------------------
(* models/evaluation.py: ZoneStatus; utils/calculations.py:               *)
(* calculate_zone_status                                                   *)

ZoneStatus == {"green", "yellow", "red"}

\* calculate_zone_status with the yellow threshold tested first
calculate_zone_status_yellow_first(score, baseline) ==
    IF RLe(score, baseline.yellow_zone_max) THEN "yellow"
    ELSE IF RLe(score, baseline.green_zone_max) THEN "green"
    ELSE "red"

\* calculate_zone_status with exclusive thresholds
calculate_zone_status_exclusive(score, baseline) ==
    IF RLt(score, baseline.green_zone_max) THEN "green"
    ELSE IF RLt(score, baseline.yellow_zone_max) THEN "yellow"
    ELSE "red"

calculate_zone_status(score, baseline) ==
    IF RLe(score, baseline.green_zone_max) THEN "green"
    ELSE IF RLe(score, baseline.yellow_zone_max) THEN "yellow"
    ELSE "red"

\* scores are drawn in halves from 0 to MaxScoreHalves/2
MaxScoreHalves == 220

ScoreInputs == {Rat(k, 2) : k \in 0..MaxScoreHalves}

\* zone thresholds, in any order (green_zone_max may exceed yellow_zone_max)
ZoneThresholdInputs == {RInt(70), RInt(75), RInt(80), RInt(85), RInt(90)}

BaselineInputs ==
    [green_zone_max : ZoneThresholdInputs, yellow_zone_max : ZoneThresholdInputs]

InitZone ==
    /\ pc = "call"
    /\ fn = "calculate_zone_status"
    /\ args \in [score : ScoreInputs, baseline : BaselineInputs]
    /\ ret = NoResult
    /\ NoService

CallZone ==
    /\ pc = "call"
    /\ fn = "calculate_zone_status"
    /\ ret' = calculate_zone_status(args.score, args.baseline)
    /\ pc' = "done"
    /\ UNCHANGED <<fn, args, service>>

NextZone == CallZone

SpecZone == InitZone /\ [][NextZone]_vars

ZoneDone == pc = "done" /\ fn = "calculate_zone_status"

\* C8: the zone is green iff score <= green_zone_max, yellow iff
\* green_zone_max < score <= yellow_zone_max, and red otherwise; both
\* thresholds are inclusive: zone(80, {80, 90}) is green, zone(90, {80, 90})
\* is yellow.
C8_ZoneThresholds ==
    ZoneDone =>
        LET g == args.baseline.green_zone_max
            y == args.baseline.yellow_zone_max
            inGreen == RLe(args.score, g)
            inYellow == RLt(g, args.score) /\ RLe(args.score, y)
        IN  /\ ret = "green" <=> inGreen
            /\ ret = "yellow" <=> inYellow
            /\ ret = "red" <=> (~inGreen /\ ~inYellow)
            /\ (g = RInt(80) /\ y = RInt(90) /\ args.score = RInt(80)) =>
                  ret = "green"
            /\ (g = RInt(80) /\ y = RInt(90) /\ args.score = RInt(90)) =>
                  ret = "yellow"

C8_Witness ==
    /\ ZoneDone
    /\ args.baseline = [green_zone_max |-> RInt(80), yellow_zone_max |-> RInt(90)]
    /\ args.score = RInt(80)
    /\ ret = "green"

\* green < yellow < red
ZoneRank(zone) == CASE zone = "green" -> 0 [] zone = "yellow" -> 1 [] zone = "red" -> 2

\* C9: for a fixed baseline, also one whose green_zone_max exceeds its
\* yellow_zone_max, and scores s1 <= s2, zone(s1) <= zone(s2) in the order
\* green < yellow < red.
C9_ZoneMonotonic ==
    ZoneDone =>
        \A s2 \in ScoreInputs :
            RLe(args.score, s2) =>
                ZoneRank(ret) <= ZoneRank(calculate_zone_status(s2, args.baseline))

\* a baseline with green_zone_max 90 above yellow_zone_max 80: 85 is green
C9_Witness ==
    /\ ZoneDone
    /\ args.baseline = [green_zone_max |-> RInt(90), yellow_zone_max |-> RInt(80)]
    /\ args.score = RInt(85)
    /\ ret = "green"

-----------------------------------------------------------------------------
(* utils/calculations.py: calculate_baseline;                              *)
(* services/statistical_analyzer.py: get_default_baseline                  *)

\* the items from xs[i] on added to acc, the sum so far (a number: its
\* denominator is positive)
RECURSIVE RSumFrom(_, _, _)
RSumFrom(xs, i, acc) ==
    IF acc.den > 0 /\ i <= Len(xs)
    THEN RSumFrom(xs, i + 1, RAdd(acc, xs[i]))
    ELSE acc

RSum(xs) == RSumFrom(xs, 1, RInt(0))

\* np.mean
Mean(xs) == RDiv(RSum(xs), RInt(Len(xs)))

\* the population variance, np.std squared
Variance(xs) ==
    LET m == Mean(xs)
        sq == [i \in 1..Len(xs) |-> RMul(RSub(xs[i], m), RSub(xs[i], m))]
    IN  RDiv(RSum(sq), RInt(Len(xs)))

\* np.std (ddof = 0), for scores whose variance has a rational square root
Std(xs) == RSqrt(Variance(xs))

\* the thresholds generate_historical_trend falls back to, in the place of
\* the default baseline's
get_default_baseline_trend ==
    [mean |-> RInt(75), std_dev |-> RInt(10),
     green_zone_max |-> RInt(75), yellow_zone_max |-> RInt(85),
     sample_size |-> 0]

get_default_baseline ==
    [mean |-> RInt(75), std_dev |-> RInt(10),
     green_zone_max |-> RInt(80), yellow_zone_max |-> RInt(90),
     sample_size |-> 0]

\* calculate_baseline with the two multipliers exchanged
calculate_baseline_swapped(historical_scores) ==
    IF historical_scores = <<>>
    THEN get_default_baseline
    ELSE LET mean == Mean(historical_scores)
             std_dev == Std(historical_scores)
         IN  [mean |-> mean, std_dev |-> std_dev,
              green_zone_max |-> RAdd(mean, RMul(Rat(3, 2), std_dev)),
              yellow_zone_max |-> RAdd(mean, RMul(Rat(1, 2), std_dev)),
              sample_size |-> Len(historical_scores)]

calculate_baseline(historical_scores) ==
    IF historical_scores = <<>>
    THEN [mean |-> RInt(75), std_dev |-> RInt(10),
          green_zone_max |-> RInt(80), yellow_zone_max |-> RInt(90),
          sample_size |-> 0]
    ELSE LET mean == Mean(historical_scores)
             std_dev == Std(historical_scores)
             green_zone_max == RAdd(mean, RMul(Rat(1, 2), std_dev))
             yellow_zone_max == RAdd(mean, RMul(Rat(3, 2), std_dev))
         IN  [mean |-> mean, std_dev |-> std_dev,
              green_zone_max |-> green_zone_max,
              yellow_zone_max |-> yellow_zone_max,
              sample_size |-> Len(historical_scores)]

\* Python's None
None == [none |-> TRUE]

\* routers/baselines.py: create_baseline. overall_score is the score of the
\* evaluation that baseline.evaluation_id names, None when no evaluation is
\* named or found or when it has no score yet; zone_thresholds maps some of
\* the keys green_zone_max, yellow_zone_max to explicit values (the empty
\* mapping when the request carries none). The value is the persisted
\* statistical_params.
create_baseline(overall_score, zone_thresholds) ==
    LET historical_scores ==
            IF overall_score # None /\ overall_score # RInt(0)
            THEN <<overall_score>> ELSE <<>>
        stats == IF historical_scores # <<>>
                 THEN calculate_baseline(historical_scores)
                 ELSE get_default_baseline
        green == IF "green_zone_max" \in DOMAIN zone_thresholds
                 THEN zone_thresholds["green_zone_max"]
                 ELSE stats.green_zone_max
        yellow == IF "yellow_zone_max" \in DOMAIN zone_thresholds
                  THEN zone_thresholds["yellow_zone_max"]
                  ELSE stats.yellow_zone_max
    IN  [stats EXCEPT !.green_zone_max = green, !.yellow_zone_max = yellow]

\* historical scores: lists of at most MaxHistory scores
MaxHistory == 2

HistoricalScoreInputs ==
    {RInt(0), RInt(40), RInt(50), Rat(125, 2), RInt(70), RInt(75),
     Rat(8125, 100), RInt(90), RInt(100)}

SeqsUpTo(S, n) == UNION {[1..k -> S] : k \in 0..n}

HistoryInputs ==
    {h \in SeqsUpTo(HistoricalScoreInputs, MaxHistory) :
        h = <<>> \/ HasRationalSqrt(Variance(h))}

\* explicit thresholds of a request: any subset of the two keys
ZoneOverrideInputs ==
    UNION {[K -> {RInt(70), RInt(90)}] :
              K \in SUBSET {"green_zone_max", "yellow_zone_max"}}

InitBaseline ==
    /\ pc = "call"
    /\ \/ /\ fn = "calculate_baseline"
          /\ args \in [historical_scores : HistoryInputs]
       \/ /\ fn = "get_default_baseline"
          /\ args = [historical_scores |-> <<>>]
       \/ /\ fn = "create_baseline"
          /\ args \in [overall_score : HistoricalScoreInputs \cup {None},
                       zone_thresholds : ZoneOverrideInputs]
    /\ ret = NoResult
    /\ NoService

CallCalculateBaseline ==
    /\ pc = "call"
    /\ fn = "calculate_baseline"
    /\ ret' = calculate_baseline(args.historical_scores)
    /\ pc' = "done"
    /\ UNCHANGED <<fn, args, service>>

CallGetDefaultBaseline ==
    /\ pc = "call"
    /\ fn = "get_default_baseline"
    /\ ret' = get_default_baseline
    /\ pc' = "done"
    /\ UNCHANGED <<fn, args, service>>

CallCreateBaseline ==
    /\ pc = "call"
    /\ fn = "create_baseline"
    /\ ret' = create_baseline(args.overall_score, args.zone_thresholds)
    /\ pc' = "done"
    /\ UNCHANGED <<fn, args, service>>

NextBaseline ==
    CallCalculateBaseline \/ CallGetDefaultBaseline \/ CallCreateBaseline

SpecBaseline == InitBaseline /\ [][NextBaseline]_vars

\* C10: calculate_baseline of an empty list returns exactly {mean 75,
\* std_dev 10, green_zone_max 80, yellow_zone_max 90, sample_size 0}, and
\* get_default_baseline() returns the identical value.
C10_DefaultBaseline ==
    LET default == [mean |-> RInt(75), std_dev |-> RInt(10),
                    green_zone_max |-> RInt(80), yellow_zone_max |-> RInt(90),
                    sample_size |-> 0]
    IN  /\ (pc = "done" /\ fn = "calculate_baseline"
                        /\ args.historical_scores = <<>>) =>
              (ret = default /\ ret = get_default_baseline)
        /\ (pc = "done" /\ fn = "get_default_baseline") =>
              (ret = default /\ ret = calculate_baseline(<<>>))

C10_Witness ==
    /\ pc = "done"
    /\ fn = "calculate_baseline"
    /\ args.historical_scores = <<>>
    /\ ret.sample_size = 0
    /\ ret.green_zone_max = RInt(80)

-----------------------------------------------------------------------------
(* Natural numbers of any size: little-endian sequences of limbs in         *)
(* 0..Base-1 with no leading zero limb; <<>> is 0.  They carry the 53-bit  *)
(* significands of binary64 and their 106-bit products.                    *)

LimbBits == 15
Base == 32768

BZero == <<>>
BOne == <<1>>

RECURSIVE BStrip(_)
BStrip(a) ==
    IF a = <<>> \/ a[Len(a)] # 0 THEN a ELSE BStrip(SubSeq(a, 1, Len(a) - 1))

BFromInt(n) ==
    BStrip(<<n % Base, (n \div Base) % Base, n \div (Base * Base)>>)

RECURSIVE BAddC(_, _, _)
BAddC(a, b, c) ==
    IF a = <<>> /\ b = <<>>
    THEN IF c = 0 THEN <<>> ELSE <<c>>
    ELSE LET x == IF a = <<>> THEN 0 ELSE Head(a)
             y == IF b = <<>> THEN 0 ELSE Head(b)
             t == x + y + c
         IN  <<t % Base>> \o BAddC(IF a = <<>> THEN a ELSE Tail(a),
                                   IF b = <<>> THEN b ELSE Tail(b),
                                   t \div Base)

BAdd(a, b) == BAddC(a, b, 0)

RECURSIVE BSubC(_, _, _)
BSubC(a, b, c) ==
    IF a = <<>> THEN <<>>
    ELSE LET y == IF b = <<>> THEN 0 ELSE Head(b)
             t == Head(a) - y - c
         IN  <<IF t < 0 THEN t + Base ELSE t>>
                \o BSubC(Tail(a), IF b = <<>> THEN b ELSE Tail(b),
                         IF t < 0 THEN 1 ELSE 0)

\* a - b, for a >= b
BSub(a, b) == BStrip(BSubC(a, b, 0))

RECURSIVE BCmpAt(_, _, _)
BCmpAt(a, b, i) ==
    IF i = 0 THEN 0
    ELSE IF a[i] # b[i] THEN (IF a[i] < b[i] THEN -1 ELSE 1)
    ELSE BCmpAt(a, b, i - 1)

\* -1, 0, 1 as a < b, a = b, a > b
BCmp(a, b) ==
    IF Len(a) # Len(b)
    THEN (IF Len(a) < Len(b) THEN -1 ELSE 1)
    ELSE BCmpAt(a, b, Len(a))

RECURSIVE BMulSmallC(_, _, _)
BMulSmallC(a, k, c) ==
    IF a = <<>>
    THEN IF c = 0 THEN <<>> ELSE <<c>>
    ELSE LET t == Head(a) * k + c
         IN  <<t % Base>> \o BMulSmallC(Tail(a), k, t \div Base)

\* a * k, for 0 <= k < Base
BMulSmall(a, k) == IF k = 0 THEN <<>> ELSE BMulSmallC(a, k, 0)

\* a * Base^n
BShiftLimbs(a, n) == IF a = <<>> THEN <<>> ELSE [i \in 1..n |-> 0] \o a

RECURSIVE BMul(_, _)
BMul(a, b) ==
    IF b = <<>> THEN <<>>
    ELSE BAdd(BMulSmall(a, Head(b)), BShiftLimbs(BMul(a, Tail(b)), 1))

\* a * 2^s
BShl(a, s) == BShiftLimbs(BMulSmall(a, 2 ^ (s % LimbBits)), s \div LimbBits)

RECURSIVE BDivSmallAt(_, _, _, _)
\* the low i limbs of the quotient of a by k, r the remainder carried down
BDivSmallAt(a, k, i, r) ==
    IF i = 0 THEN <<>>
    ELSE LET t == r * Base + a[i]
         IN  BDivSmallAt(a, k, i - 1, t % k) \o <<t \div k>>

\* a \div 2^s
BShr(a, s) ==
    LET n == s \div LimbBits
        hi == IF n >= Len(a) THEN <<>> ELSE SubSeq(a, n + 1, Len(a))
    IN  BStrip(BDivSmallAt(hi, 2 ^ (s % LimbBits), Len(hi), 0))

\* the number of bits of a: 0 for 0, else floor(log2(a)) + 1
BBitLen(a) ==
    IF a = <<>> THEN 0
    ELSE LimbBits * (Len(a) - 1)
         + (CHOOSE n \in 1..LimbBits :
               2 ^ (n - 1) <= a[Len(a)] /\ a[Len(a)] < 2 ^ n)

BIsOdd(a) == a # <<>> /\ a[1] % 2 = 1

\* the largest of lo, lo + step, ..., lo + 7 * step whose product with d is
\* at most cur (d * lo <= cur)
BDigitStep(cur, d, lo, step) ==
    lo + step * Cardinality({j \in 1..7 :
                                BCmp(BMulSmall(d, lo + j * step), cur) <= 0})

\* the largest k in 0..Base-1 with d * k <= cur (cur < d * Base): its five
\* octal digits, from the highest
BDigit(cur, d) ==
    BDigitStep(cur, d,
        BDigitStep(cur, d,
            BDigitStep(cur, d,
                BDigitStep(cur, d,
                    BDigitStep(cur, d, 0, Base \div 8),
                    Base \div 64),
                Base \div 512),
            8),
        1)

RECURSIVE BDivModFrom(_, _, _, _, _)
\* long division in base Base, from limb i of n down: q holds the limbs of
\* the quotient found so far and r, below d, the remainder carried down
BDivModFrom(n, d, i, q, r) ==
    IF i = 0 \/ BCmp(r, d) >= 0 THEN [q |-> q, r |-> r]
    ELSE LET cur == IF r = BZero THEN BStrip(<<n[i]>>) ELSE <<n[i]>> \o r
             k == BDigit(cur, d)
         IN  BDivModFrom(n, d, i - 1, <<k>> \o q, BSub(cur, BMulSmall(d, k)))

\* [q, r] with n = q * d + r and r < d, for d # 0
BDivMod(n, d) ==
    LET qr == BDivModFrom(n, d, Len(n), <<>>, BZero)
    IN  [q |-> BStrip(qr.q), r |-> qr.r]

-----------------------------------------------------------------------------
(* IEEE-754 binary64, the float of CPython: a non-negative finite double   *)
(* is [m, e] with value m * 2^e, m = 0 or 2^52 <= m < 2^53.  Every         *)
(* operation returns the exact result rounded to nearest, ties to even.    *)
(* (Exponent range, subnormals and signs are left out: the scores and      *)
(* weights are non-negative and of moderate size.)                         *)

MantissaBits == 53

FZero == [m |-> BZero, e |-> 0]

\* the double nearest to N * 2^E, or to a value strictly between N * 2^E and
\* (N+1) * 2^E when sticky (then N has more than MantissaBits bits)
FRound(N, E, sticky) ==
    IF N = BZero THEN FZero
    ELSE LET L == BBitLen(N)
         IN  IF L <= MantissaBits
             THEN [m |-> BShl(N, MantissaBits - L), e |-> E - (MantissaBits - L)]
             ELSE LET s == L - MantissaBits
                      q == BShr(N, s)
                      rem == BSub(N, BShl(q, s))
                      c == BCmp(rem, BShl(BOne, s - 1))
                      up == c > 0 \/ (c = 0 /\ (sticky \/ BIsOdd(q)))
                      q1 == IF up THEN BAdd(q, BOne) ELSE q
                  IN  IF BBitLen(q1) > MantissaBits
                      THEN [m |-> BShr(q1, 1), e |-> E + s + 1]
                      ELSE [m |-> q1, e |-> E + s]

\* float(n) for an int 0 <= n < 2^31
FInt(n) == FRound(BFromInt(n), 0, FALSE)

FAdd(a, b) ==
    IF a = FZero THEN b
    ELSE IF b = FZero THEN a
    ELSE LET e == IF a.e < b.e THEN a.e ELSE b.e
         IN  FRound(BAdd(BShl(a.m, a.e - e), BShl(b.m, b.e - e)), e, FALSE)

FMul(a, b) ==
    IF a = FZero \/ b = FZero THEN FZero
    ELSE FRound(BMul(a.m, b.m), a.e + b.e, FALSE)

\* a / b for b # 0: the quotient of a.m * 2^60 by b.m has at least 60 bits,
\* more than the significand needs, and the remainder is the sticky bit
FDiv(a, b) ==
    IF a = FZero THEN FZero
    ELSE LET k == 4 * LimbBits
             d == BDivMod(BShl(a.m, k), b.m)
         IN  FRound(d.q, a.e - k - b.e, d.r # BZero)

\* the double a decimal literal n/d denotes (d a power of ten)
FDec(n, d) == FDiv(FInt(n), FInt(d))

\* round(x, 2): the exact value of x rounded to the nearest hundredth, ties
\* to even, and the double nearest to that decimal
FRoundHundredths(x) ==
    IF x = FZero THEN FZero
    ELSE LET N == BMul(x.m, BFromInt(100))
             h == IF x.e >= 0 THEN BShl(N, x.e)
                  ELSE LET s == 0 - x.e
                           q == BShr(N, s)
                           rem == BSub(N, BShl(q, s))
                           c == BCmp(rem, BShl(BOne, s - 1))
                           up == c > 0 \/ (c = 0 /\ BIsOdd(q))
                       IN  IF up THEN BAdd(q, BOne) ELSE q
         IN  FDiv(FRound(h, 0, FALSE), FInt(100))

-----------------------------------------------------------------------------
(* services/statistical_analyzer.py: calculate_overall_score *)

\* what a call returns when the function raised instead
ZeroDivisionError == [raised |-> "ZeroDivisionError"]

\* a / b on floats: Python raises when b is 0
PyDiv(a, b) == IF b = FZero THEN ZeroDivisionError ELSE FDiv(a, b)

RECURSIVE WeightedSums(_, _, _)
\* the for loop over findings, from weighted_sum and total_weight so far
WeightedSums(findings, weighted_sum, total_weight) ==
    IF findings = <<>>
    THEN [weighted_sum |-> weighted_sum, total_weight |-> total_weight]
    ELSE LET finding == Head(findings)
             confidence == finding.confidence_level
             severity_score == finding.severity_score
             weight == confidence
         IN  WeightedSums(Tail(findings),
                          FAdd(weighted_sum, FMul(severity_score, weight)),
                          FAdd(total_weight, weight))

\* calculate_overall_score without the test of total_weight
calculate_overall_score_unguarded(findings) ==
    IF findings = <<>> THEN FZero
    ELSE LET sums == WeightedSums(findings, FZero, FZero)
             overall == PyDiv(sums.weighted_sum, sums.total_weight)
         IN  IF overall = ZeroDivisionError THEN overall
             ELSE FRoundHundredths(overall)

calculate_overall_score(findings) ==
    IF findings = <<>> THEN FZero
    ELSE LET sums == WeightedSums(findings, FZero, FZero)
         IN  IF sums.total_weight = FZero THEN FZero
             ELSE LET overall == PyDiv(sums.weighted_sum, sums.total_weight)
                  IN  IF overall = ZeroDivisionError THEN overall
                      ELSE FRoundHundredths(overall)

\* findings: lists of at most MaxFindings findings, each with a
\* confidence_level (in hundredths) and a severity_score (in tenths)
MaxFindings == 3

FindingDecimals == {<<23, 497>>, <<48, 923>>, <<9, 533>>, <<0, 500>>, <<0, 0>>}

Finding(c, s) ==
    [confidence_level |-> FDec(c, 100), severity_score |-> FDec(s, 10)]

FindingInputs == {Finding(p[1], p[2]) : p \in FindingDecimals}

FindingsInputs == SeqsUpTo(FindingInputs, MaxFindings)

InitOverall ==
    /\ pc = "call"
    /\ fn = "calculate_overall_score"
    /\ args \in [findings : FindingsInputs]
    /\ ret = NoResult
    /\ NoService

CallOverall ==
    /\ pc = "call"
    /\ fn = "calculate_overall_score"
    /\ ret' = calculate_overall_score(args.findings)
    /\ pc' = "done"
    /\ UNCHANGED <<fn, args, service>>

NextOverall == CallOverall

SpecOverall == InitOverall /\ [][NextOverall]_vars

OverallDone == pc = "done" /\ fn = "calculate_overall_score"

AllConfidenceZero(findings) ==
    \A i \in 1..Len(findings) : findings[i].confidence_level = FZero

\* C6: calculate_overall_score returns 0.0, without raising, when the
\* findings list is empty and when the sum of the findings' confidence
\* levels is 0; it never divides by a zero total weight.
C6_ZeroWeightGuard ==
    OverallDone =>
        /\ ret # ZeroDivisionError
        /\ args.findings = <<>> => ret = FZero
        /\ AllConfidenceZero(args.findings) => ret = FZero

C6_Witness ==
    /\ OverallDone
    /\ Len(args.findings) = 2
    /\ AllConfidenceZero(args.findings)
    /\ ret = FZero

IndexPermutations(n) ==
    {p \in [1..n -> 1..n] : \A i, j \in 1..n : p[i] = p[j] => i = j}

Permute(xs, p) == [i \in 1..Len(xs) |-> xs[p[i]]]

\* C7: calculate_overall_score returns the same value for every permutation
\* of the same list of findings.
C7_OrderIndependent ==
    OverallDone =>
        \A p \in IndexPermutations(Len(args.findings)) :
            calculate_overall_score(Permute(args.findings, p)) = ret

-----------------------------------------------------------------------------
(* services/heuristic_detector.py: the five detectors and run_detection    *)

\* detectors whose anchoring draws range up to 100 instead of 60
detectors_anchoring_to_100 ==
    [anchoring |->
        [low |-> RInt(0), high |-> RInt(100), threshold |-> RInt(30),
         floor |-> RInt(0)],
     loss_aversion |->
        [low |-> RInt(1), high |-> Rat(7, 2), threshold |-> RInt(2),
         floor |-> RInt(1)],
     confirmation_bias |->
        [low |-> RInt(0), high |-> RInt(85), threshold |-> RInt(60),
         floor |-> RInt(0)],
     sunk_cost |->
        [low |-> RInt(0), high |-> RInt(90), threshold |-> RInt(50),
         floor |-> RInt(0)],
     availability_heuristic |->
        [low |-> RInt(0), high |-> RInt(70), threshold |-> RInt(40),
         floor |-> RInt(0)]]

\* The detectors differ in the range of random.uniform, the detection
\* threshold and the average reported when nothing is detected.
detectors ==
    [anchoring |->
        [low |-> RInt(0), high |-> RInt(60), threshold |-> RInt(30),
         floor |-> RInt(0)],
     loss_aversion |->
        [low |-> RInt(1), high |-> Rat(7, 2), threshold |-> RInt(2),
         floor |-> RInt(1)],
     confirmation_bias |->
        [low |-> RInt(0), high |-> RInt(85), threshold |-> RInt(60),
         floor |-> RInt(0)],
     sunk_cost |->
        [low |-> RInt(0), high |-> RInt(90), threshold |-> RInt(50),
         floor |-> RInt(0)],
     availability_heuristic |->
        [low |-> RInt(0), high |-> RInt(70), threshold |-> RInt(40),
         floor |-> RInt(0)]]

\* random.uniform(a, b) is a + (b - a) * random(); u is the value of random()
uniform(a, b, u) == RAdd(a, RMul(RSub(b, a), u))

\* The generator's stream: value number k (from 1) of random() during the
\* detection loops. A stream repeats its first Len(stream) values.
StreamAt(stream, k) == stream[((k - 1) % Len(stream)) + 1]

\* a detector that averages every draw instead of the detected ones only
detect_average_all_draws(heuristic_type, iterations, stream, used) ==
    LET p == detectors[heuristic_type]
        draws == [i \in 1..iterations |->
                     uniform(p.low, p.high, StreamAt(stream, used + i))]
        values == SelectSeq(draws, LAMBDA v : RGt(v, p.threshold))
        detections == Len(values)
        avg == IF values # <<>> THEN Mean(draws) ELSE p.floor
        confidence == calculate_confidence(detections, iterations)
        severity == calculate_severity_score(avg, heuristic_type)
    IN  [heuristic_type |-> heuristic_type,
         detection_count |-> detections,
         confidence_level |-> confidence,
         severity_score |-> severity.score,
         severity |-> severity.level]

\* One detector: `iterations` draws starting after the first `used` values
\* of the stream; a draw above the threshold is a detection.
detect(heuristic_type, iterations, stream, used) ==
    LET p == detectors[heuristic_type]
        draws == [i \in 1..iterations |->
                     uniform(p.low, p.high, StreamAt(stream, used + i))]
        values == SelectSeq(draws, LAMBDA v : RGt(v, p.threshold))
        detections == Len(values)
        avg == IF values # <<>> THEN Mean(values) ELSE p.floor
        confidence == calculate_confidence(detections, iterations)
        severity == calculate_severity_score(avg, heuristic_type)
    IN  [heuristic_type |-> heuristic_type,
         detection_count |-> detections,
         confidence_level |-> confidence,
         severity_score |-> severity.score,
         severity |-> severity.level]

\* the for loop of run_detection over heuristic_types[i..], with `used`
\* values of the stream consumed so far
RECURSIVE RunDetectionFrom(_, _, _, _, _)
RunDetectionFrom(heuristic_types, iterations, stream, i, used) ==
    IF i > Len(heuristic_types)
    THEN <<>>
    ELSE IF heuristic_types[i] \in DOMAIN detectors
    THEN <<detect(heuristic_types[i], iterations, stream, used)>>
         \o RunDetectionFrom(heuristic_types, iterations, stream, i + 1,
                             used + iterations)
    ELSE RunDetectionFrom(heuristic_types, iterations, stream, i + 1, used)

\* run_detection that gives up on the first unknown name
run_detection_stop_at_unknown(heuristic_types, iterations, stream) ==
    LET known == {i \in 1..Len(heuristic_types) :
                     \A j \in 1..i : heuristic_types[j] \in DOMAIN detectors}
    IN  RunDetectionFrom(SubSeq(heuristic_types, 1, Cardinality(known)),
                         iterations, stream, 1, 0)

run_detection(heuristic_types, iterations, stream) ==
    RunDetectionFrom(heuristic_types, iterations, stream, 1, 0)

\* requests name at most MaxHeuristicTypes types, known or not, repeats
\* allowed
MaxHeuristicTypes == 2

HeuristicTypesInputs == SeqsUpTo(HeuristicTypeInputs, MaxHeuristicTypes)

\* iteration counts with rational square roots
DetectionIterationInputs == {0, 1, 4, 16}

\* values of random(): 0, 1/2, 2/3 and 4/5 (of the five thresholds, only
\* loss_aversion's lies below the middle of its range; 2/3 lies above every
\* threshold but confirmation_bias's)
UnitInputs == {Rat(0, 1), Rat(1, 2), Rat(2, 3), Rat(4, 5)}

\* streams repeat after StreamPeriod values
StreamPeriod == 2

StreamInputs == [1..StreamPeriod -> UnitInputs]

InitDetection ==
    /\ pc = "call"
    /\ fn = "run_detection"
    /\ args \in [heuristic_types : HeuristicTypesInputs,
                 iterations : DetectionIterationInputs,
                 stream : StreamInputs]
    /\ ret = NoResult
    /\ NoService

CallRunDetection ==
    /\ pc = "call"
    /\ fn = "run_detection"
    /\ ret' = run_detection(args.heuristic_types, args.iterations,
                            args.stream)
    /\ pc' = "done"
    /\ UNCHANGED <<fn, args, service>>

NextDetection == CallRunDetection

SpecDetection == InitDetection /\ [][NextDetection]_vars

DetectionDone == pc = "done" /\ fn = "run_detection"

\* the entries of heuristic_types that name a detector, in input order
Recognised(heuristic_types) ==
    SelectSeq(heuristic_types, LAMBDA t : t \in HeuristicType)

\* C20: run_detection returns, in input order, exactly one finding for each
\* entry of heuristic_types that is one of the five known names and nothing
\* for any other entry; an unknown name does not raise, and the length of
\* the result is the number of recognised entries.
C20_OneFindingPerKnownType ==
    DetectionDone =>
        LET known == Recognised(args.heuristic_types)
        IN  /\ ret \in Seq([heuristic_type : HeuristicType,
                            detection_count : 0..args.iterations,
                            confidence_level : [num : Int, den : Int],
                            severity_score : [num : Int, den : Int],
                            severity : SeverityLevel])
            /\ Len(ret) = Len(known)
            /\ \A i \in 1..Len(ret) : ret[i].heuristic_type = known[i]

\* an unknown name before a known one has been skipped
C20_Witness ==
    /\ DetectionDone
    /\ Len(args.heuristic_types) = 2
    /\ args.heuristic_types[1] = "unknown_type"
    /\ args.heuristic_types[2] = "loss_aversion"
    /\ args.iterations = 16
    /\ Len(ret) = 1
    /\ ret[1].heuristic_type = "loss_aversion"
    /\ ret[1].detection_count > 0

\* the severity score a detector reports when nothing was detected: its
\* floor average in the low band, floor / medium threshold * 25
FloorSeverityScore(heuristic_type) ==
    RMul(RDiv(detectors[heuristic_type].floor,
              thresholds[heuristic_type].medium), RInt(25))

\* C22: every finding of a detector has 0 <= detection_count <= iterations,
\* and its severity is low exactly when detection_count is 0: without a
\* detection the average is the type's floor (0, or 1.0 for loss_aversion),
\* the level is low and the confidence 0; with a detection the level is
\* medium or higher.
C22_LowIffNoDetection ==
    DetectionDone =>
        \A i \in 1..Len(ret) :
            LET f == ret[i]
            IN  /\ f.detection_count \in 0..args.iterations
                /\ (f.severity = "low") <=> (f.detection_count = 0)
                /\ f.detection_count = 0 =>
                       /\ f.confidence_level = RInt(0)
                       /\ f.severity_score =
                              FloorSeverityScore(f.heuristic_type)
                /\ f.detection_count > 0 =>
                       f.severity \in {"medium", "high", "critical"}

\* a loss_aversion finding without a detection next to a sunk_cost finding
\* whose one detection, 60, is in the medium band
C22_Witness ==
    /\ DetectionDone
    /\ args.iterations = 1
    /\ Len(ret) = 2
    /\ ret[1].heuristic_type = "loss_aversion"
    /\ ret[1].detection_count = 0
    /\ ret[1].severity = "low"
    /\ ret[1].severity_score = Rat(125, 9)
    /\ ret[2].heuristic_type = "sunk_cost"
    /\ ret[2].detection_count = 1
    /\ ret[2].severity = "medium"

-----------------------------------------------------------------------------
(* utils/calculations.py: calculate_priority                               *)

\* int(x): truncation toward zero
RTrunc(a) ==
    IF a.num >= 0 THEN a.num \div a.den ELSE -((-a.num) \div a.den)

\* math.floor(x)
RFloor(a) == a.num \div a.den

\* impact_scores.get(impact, 10)
impact_scores(impact) ==
    CASE impact = "low" -> 5
      [] impact = "medium" -> 10
      [] impact = "high" -> 15
      [] OTHER -> 10

\* the weighted sum before normalisation
PriorityRaw(severity_score, confidence_level, impact) ==
    RAdd(RAdd(RMul(severity_score, Rat(6, 10)),
              RMul(confidence_level, RInt(30))),
         RMul(RInt(impact_scores(impact)), Rat(1, 10)))

IntMin(a, b) == IF a <= b THEN a ELSE b

IntMax(a, b) == IF a >= b THEN a ELSE b

\* calculate_priority without the lower clamp max(normalized, 1)
calculate_priority_no_lower_clamp(severity_score, confidence_level, impact) ==
    LET priority == PriorityRaw(severity_score, confidence_level, impact)
        normalized == RTrunc(RMul(RDiv(priority, RInt(100)), RInt(9))) + 1
    IN  IntMin(normalized, 10)

\* calculate_priority that scales the raw value to tenths, not ninths
calculate_priority_scaled_by_ten(severity_score, confidence_level, impact) ==
    LET priority == PriorityRaw(severity_score, confidence_level, impact)
        normalized == RTrunc(RMul(RDiv(priority, RInt(100)), RInt(10))) + 1
    IN  IntMin(IntMax(normalized, 1), 10)

calculate_priority(severity_score, confidence_level, impact) ==
    LET priority == PriorityRaw(severity_score, confidence_level, impact)
        normalized == RTrunc(RMul(RDiv(priority, RInt(100)), RInt(9))) + 1
    IN  IntMin(IntMax(normalized, 1), 10)

\* severity scores in halves, confidence levels in twentieths, both beyond
\* their nominal ranges [0, 100] and [0, 1] on either side
MinSeverityHalves == 80
MaxSeverityHalves == 240
MinConfidenceTwentieths == 10
MaxConfidenceTwentieths == 30

PrioritySeverityInputs ==
    {Rat(k, 2) : k \in (-MinSeverityHalves)..MaxSeverityHalves}

\* with 0.99, the largest confidence 0.99 a detector can report
PriorityConfidenceInputs ==
    {Rat(k, 20) : k \in (-MinConfidenceTwentieths)..MaxConfidenceTwentieths}
        \cup {Rat(99, 100)}

ImpactInputs == {"low", "medium", "high", "unknown_impact"}

InitPriority ==
    /\ pc = "call"
    /\ fn = "calculate_priority"
    /\ args \in [severity_score : PrioritySeverityInputs,
                 confidence_level : PriorityConfidenceInputs,
                 impact : ImpactInputs]
    /\ ret = NoResult
    /\ NoService

CallPriority ==
    /\ pc = "call"
    /\ fn = "calculate_priority"
    /\ ret' = calculate_priority(args.severity_score, args.confidence_level,
                                 args.impact)
    /\ pc' = "done"
    /\ UNCHANGED <<fn, args, service>>

NextPriority == CallPriority

SpecPriority == InitPriority /\ [][NextPriority]_vars

PriorityDone == pc = "done" /\ fn = "calculate_priority"

\* the impact weights the specification names
ImpactWeight(impact) ==
    CASE impact = "low" -> 5 [] impact = "medium" -> 10 [] impact = "high" -> 15

\* C13: for all severity_score, confidence_level and impact low, medium or
\* high, calculate_priority returns
\* clamp(floor((0.6*severity_score + 30*confidence_level + 0.1*w)/100*9) + 1,
\* 1, 10) with w = 5, 10, 15; the result is an integer in 1..10, also when
\* the raw value is negative, where the code truncates toward zero and the
\* formula floors.
C13_PriorityFormula ==
    PriorityDone =>
        /\ ret \in 1..10
        /\ args.impact \in {"low", "medium", "high"} =>
              LET raw == RAdd(RAdd(RMul(Rat(3, 5), args.severity_score),
                                   RMul(RInt(30), args.confidence_level)),
                              Rat(ImpactWeight(args.impact), 10))
                  floored == RFloor(RDiv(RMul(raw, RInt(9)), RInt(100))) + 1
              IN  ret = IntMin(IntMax(floored, 1), 10)

\* a negative raw value on which truncation and floor differ: 0.6 * (-40) +
\* 30 * (-0.5) + 0.5 = -38.5, int(-3.465) + 1 = -2, floor(-3.465) + 1 = -3
C13_Witness ==
    /\ PriorityDone
    /\ args.severity_score = RInt(-40)
    /\ args.confidence_level = Rat(-1, 2)
    /\ args.impact = "low"
    /\ RTrunc(RMul(RDiv(PriorityRaw(args.severity_score,
                                     args.confidence_level, args.impact),
                         RInt(100)), RInt(9))) = -3
    /\ ret = 1

\* C29: for severity_score in [0, 100], confidence_level in [0, 0.99] and
\* impact low, medium or high, the raw value is at most 60 + 29.7 + 1.5 =
\* 91.2 and calculate_priority returns at most 9.
C29_PriorityAtMostNine ==
    (/\ PriorityDone
     /\ RLe(RInt(0), args.severity_score)
     /\ RLe(args.severity_score, RInt(100))
     /\ RLe(RInt(0), args.confidence_level)
     /\ RLe(args.confidence_level, Rat(99, 100))
     /\ args.impact \in {"low", "medium", "high"})
        => /\ RLe(PriorityRaw(args.severity_score, args.confidence_level,
                              args.impact), Rat(912, 10))
           /\ ret <= 9

\* the largest raw value, 91.2, gives priority int(8.208) + 1 = 9
C29_Witness ==
    /\ PriorityDone
    /\ args.severity_score = RInt(100)
    /\ args.confidence_level = Rat(99, 100)
    /\ args.impact = "high"
    /\ ret = 9

-----------------------------------------------------------------------------
(* services/recommendation_generator.py: RecommendationGenerator           *)
(* models/recommendation.py: ImpactLevel, DifficultyLevel                  *)

ImpactLevel == {"low", "medium", "high"}

DifficultyLevel == {"easy", "moderate", "complex"}

\* the catalog, without the two description texts of each template
RECOMMENDATION_TEMPLATES ==
    [
 anchoring |->
       <<[action_title |-> "Implement multi-perspective prompting",
          estimated_impact |-> "high", implementation_difficulty |-> "easy"],
         [action_title |-> "Add anchor-blind evaluation phase",
          estimated_impact |-> "medium", implementation_difficulty |-> "moderate"],
         [action_title |-> "Randomize information presentation order",
          estimated_impact |-> "medium", implementation_difficulty |-> "easy"]>>,
     loss_aversion |->
       <<[action_title |-> "Normalize gain/loss framing",
          estimated_impact |-> "high", implementation_difficulty |-> "moderate"],
         [action_title |-> "Implement risk-neutral scoring",
          estimated_impact |-> "high", implementation_difficulty |-> "complex"],
         [action_title |-> "Add loss aversion detection layer",
          estimated_impact |-> "medium", implementation_difficulty |-> "moderate"]>>,
     confirmation_bias |->
       <<[action_title |-> "Implement adversarial evidence search",
          estimated_impact |-> "high", implementation_difficulty |-> "moderate"],
         [action_title |-> "Add belief revision tracking",
          estimated_impact |-> "medium", implementation_difficulty |-> "complex"],
         [action_title |-> "Use blind evidence evaluation",
          estimated_impact |-> "high", implementation_difficulty |-> "moderate"]>>,
     sunk_cost |->
       <<[action_title |-> "Implement forward-looking decision framework",
          estimated_impact |-> "high", implementation_difficulty |-> "easy"],
         [action_title |-> "Add sunk cost filter",
          estimated_impact |-> "medium", implementation_difficulty |-> "moderate"],
         [action_title |-> "Use incremental value analysis",
          estimated_impact |-> "high", implementation_difficulty |-> "moderate"]>>,
     availability_heuristic |->
       <<[action_title |-> "Incorporate base rate priming",
          estimated_impact |-> "high", implementation_difficulty |-> "easy"],
         [action_title |-> "Implement recency weighting correction",
          estimated_impact |-> "medium", implementation_difficulty |-> "complex"],
         [action_title |-> "Use frequency-based sampling",
          estimated_impact |-> "high", implementation_difficulty |-> "moderate"]>>]

\* RECOMMENDATION_TEMPLATES.get(heuristic_type, [])
TemplatesOf(heuristic_type) ==
    IF heuristic_type \in DOMAIN RECOMMENDATION_TEMPLATES
    THEN RECOMMENDATION_TEMPLATES[heuristic_type]
    ELSE <<>>

\* the recommendations of one finding, one per template, in template order
FindingRecommendations(finding) ==
    LET templates == TemplatesOf(finding.heuristic_type)
    IN  [t \in 1..Len(templates) |->
            [heuristic_type |-> finding.heuristic_type,
             priority |-> calculate_priority(finding.severity_score,
                                             finding.confidence_level,
                                             templates[t].estimated_impact),
             action_title |-> templates[t].action_title,
             estimated_impact |-> templates[t].estimated_impact,
             implementation_difficulty |->
                 templates[t].implementation_difficulty]]

\* the list `recommendations` before it is sorted
RECURSIVE Candidates(_)
Candidates(findings) ==
    IF findings = <<>>
    THEN <<>>
    ELSE FindingRecommendations(Head(findings)) \o Candidates(Tail(findings))

\* Candidates that leaves out the findings in which nothing was detected
RECURSIVE CandidatesOfDetected(_)
CandidatesOfDetected(findings) ==
    IF findings = <<>>
    THEN <<>>
    ELSE (IF Head(findings).detection_count > 0
          THEN FindingRecommendations(Head(findings)) ELSE <<>>)
         \o CandidatesOfDetected(Tail(findings))

\* x put into a list sorted by descending priority; x goes behind the items
\* of its own priority when `stable`, in front of them otherwise
RECURSIVE InsertByPriority(_, _, _)
InsertByPriority(sorted, x, stable) ==
    IF sorted = <<>>
    THEN <<x>>
    ELSE IF \/ Head(sorted).priority > x.priority
            \/ (stable /\ Head(sorted).priority = x.priority)
    THEN <<Head(sorted)>> \o InsertByPriority(Tail(sorted), x, stable)
    ELSE <<x>> \o sorted

\* list.sort(key = priority, reverse = True): descending, and stable
RECURSIVE SortByPriority(_, _)
SortByPriority(recommendations, stable) ==
    IF recommendations = <<>>
    THEN <<>>
    ELSE LET n == Len(recommendations)
         IN  InsertByPriority(
                 SortByPriority(SubSeq(recommendations, 1, n - 1), stable),
                 recommendations[n], stable)

\* recommendations[:n]
Take(xs, n) == SubSeq(xs, 1, IntMin(n, Len(xs)))

\* generate_recommendations with ties in reverse generation order
generate_recommendations_reversed_ties(findings) ==
    Take(SortByPriority(Candidates(findings), FALSE), 7)

\* generate_recommendations that skips findings without detections
generate_recommendations_detected_only(findings) ==
    Take(SortByPriority(CandidatesOfDetected(findings), TRUE), 7)

generate_recommendations(findings) ==
    Take(SortByPriority(Candidates(findings), TRUE), 7)

\* The findings run_detection hands over: those of each detector after 16
\* iterations in which nothing, everything or every second draw is detected
RecommendationStreamInputs ==
    {<<Rat(0, 1)>>, <<Rat(4, 5)>>, <<Rat(4, 5), Rat(0, 1)>>}

RecommendationFindingInputs ==
    {detect(t, 16, stream, 0) :
        t \in HeuristicType, stream \in RecommendationStreamInputs}

\* lists of at most MaxRecommendationFindings findings
MaxRecommendationFindings == 3

InitRecommendations ==
    /\ pc = "call"
    /\ fn = "generate_recommendations"
    /\ args \in [findings : SeqsUpTo(RecommendationFindingInputs,
                                     MaxRecommendationFindings)]
    /\ ret = NoResult
    /\ NoService

CallRecommendations ==
    /\ pc = "call"
    /\ fn = "generate_recommendations"
    /\ ret' = generate_recommendations(args.findings)
    /\ pc' = "done"
    /\ UNCHANGED <<fn, args, service>>

NextRecommendations == CallRecommendations

SpecRecommendations == InitRecommendations /\ [][NextRecommendations]_vars

RecommendationsDone == pc = "done" /\ fn = "generate_recommendations"

\* The place of candidate i in the stable descending order: behind every
\* candidate of higher priority and every earlier one of its own priority.
StableRank(cands, i) ==
    1 + Cardinality({j \in 1..Len(cands) :
                        cands[j].priority > cands[i].priority})
      + Cardinality({j \in 1..(i - 1) :
                        cands[j].priority = cands[i].priority})

\* C12: generate_recommendations returns at most 7 items in non-increasing
\* priority order; items of equal priority appear in generation order
\* (order of the findings, then of the templates of a finding); the items
\* kept are the first 7 of that stable ordering.
C12_StableTopSeven ==
    RecommendationsDone =>
        LET cands == Candidates(args.findings)
        IN  /\ Len(ret) <= 7
            /\ \A i, j \in 1..Len(ret) :
                  i < j => ret[i].priority >= ret[j].priority
            /\ Len(ret) = IntMin(7, Len(cands))
            /\ \A i \in 1..Len(cands) :
                  StableRank(cands, i) <= 7 =>
                      ret[StableRank(cands, i)] = cands[i]

\* more than 7 candidates, ties within and across findings, and a later
\* finding whose recommendations overtake an earlier one's
C12_Witness ==
    /\ RecommendationsDone
    /\ Len(args.findings) = 3
    /\ Len(ret) = 7
    /\ ret[1].heuristic_type = args.findings[3].heuristic_type
    /\ ret[1].heuristic_type # args.findings[1].heuristic_type
    /\ ret[1].priority > ret[7].priority
    /\ \E i \in 1..6 :
          /\ ret[i].priority = ret[i + 1].priority
          /\ ret[i].heuristic_type # ret[i + 1].heuristic_type

\* C14: every heuristic type has exactly 3 templates, and there is exactly
\* one candidate per (finding, template) pair whatever the finding's
\* detection_count is: the n findings of run_detection give 3n candidates,
\* the result has exactly min(7, 3n) items, and a finding with
\* detection_count 0 contributes as many candidates as any other.
C14_OneCandidatePerTemplate ==
    /\ \A t \in HeuristicType : Len(RECOMMENDATION_TEMPLATES[t]) = 3
    /\ DOMAIN RECOMMENDATION_TEMPLATES = HeuristicType
    /\ RecommendationsDone =>
          LET n == Len(args.findings)
              kept == [f \in 1..n |->
                          {i \in 1..Len(ret) :
                              \E t \in 1..3 :
                                  ret[i] = FindingRecommendations(
                                               args.findings[f])[t]}]
          IN  /\ Len(ret) = IntMin(7, 3 * n)
              /\ \A f \in 1..n :
                    Len(FindingRecommendations(args.findings[f])) = 3
              /\ n <= 2 => \A f \in 1..n : kept[f] # {}

\* a finding without detections whose three recommendations are all
\* returned
C14_Witness ==
    /\ RecommendationsDone
    /\ Len(args.findings) = 2
    /\ args.findings[1].detection_count = 0
    /\ args.findings[2].detection_count > 0
    /\ args.findings[1].heuristic_type # args.findings[2].heuristic_type
    /\ Len(ret) = 6
    /\ Cardinality({i \in 1..6 :
           ret[i].heuristic_type = args.findings[1].heuristic_type}) = 3

-----------------------------------------------------------------------------
(* services/statistical_analyzer.py: detect_drift                          *)
(* The arithmetic is binary64, as in calculate_overall_score. A signed     *)
(* float is a magnitude and a sign; rounding to nearest is symmetric, so   *)
(* the magnitude of a difference, quotient or product is the rounded       *)
(* magnitude of the exact one.                                             *)

\* -1, 0, 1 as a < b, a = b, a > b, for floats a, b >= 0
FCmp(a, b) ==
    LET e == IF a.e < b.e THEN a.e ELSE b.e
    IN  BCmp(BShl(a.m, a.e - e), BShl(b.m, b.e - e))

\* abs(a - b)
FSubAbs(a, b) ==
    LET e == IF a.e < b.e THEN a.e ELSE b.e
        x == BShl(a.m, a.e - e)
        y == BShl(b.m, b.e - e)
    IN  IF BCmp(x, y) >= 0
        THEN FRound(BSub(x, y), e, FALSE)
        ELSE FRound(BSub(y, x), e, FALSE)

RECURSIVE BToInt(_)
\* the int a bignum below 2^31 denotes
BToInt(a) == IF a = <<>> THEN 0 ELSE Head(a) + Base * BToInt(Tail(a))

\* f"{x:.1f}": the exact value of x rounded to the nearest tenth, ties to
\* even, as a number of tenths
FormatTenths(x) ==
    IF x = FZero THEN 0
    ELSE LET N == BMulSmall(x.m, 10)
         IN  IF x.e >= 0 THEN BToInt(BShl(N, x.e))
             ELSE LET s == 0 - x.e
                      q == BShr(N, s)
                      rem == BSub(N, BShl(q, s))
                      c == BCmp(rem, BShl(BOne, s - 1))
                      up == c > 0 \/ (c = 0 /\ BIsOdd(q))
                  IN  BToInt(IF up THEN BAdd(q, BOne) ELSE q)

RECURSIVE FSum(_, _)
\* sum(xs): the items added one by one, from the left
FSum(xs, acc) == IF xs = <<>> THEN acc ELSE FSum(Tail(xs), FAdd(acc, Head(xs)))

\* xs[-n:]
LastN(xs, n) == SubSeq(xs, IntMax(Len(xs) - n, 0) + 1, Len(xs))

\* the float values of the scores of some points; a score is a decimal
\* fraction num / den, and the float is the double nearest to it
ScoresOf(points) ==
    [i \in 1..Len(points) |-> FDec(points[i].score.num, points[i].score.den)]

NoDrift == [has_drift |-> FALSE, drift_message |-> None]

\* The message f"Bias metrics {direction} by {abs(drift_percent):.1f}% over
\* last 7 days" is the record of its two variable parts.
detect_drift(trend_data) ==
    IF Len(trend_data) < 7
    THEN NoDrift
    ELSE LET recent == ScoresOf(LastN(trend_data, 7))
             previous == IF Len(trend_data) >= 14
                         THEN ScoresOf(SubSeq(LastN(trend_data, 14), 1, 7))
                         ELSE <<>>
         IN  IF previous = <<>>
             THEN NoDrift
             ELSE LET recent_avg ==
                          FDiv(FSum(recent, FZero), FInt(Len(recent)))
                      previous_avg ==
                          FDiv(FSum(previous, FZero), FInt(Len(previous)))
                      quotient ==
                          PyDiv(FSubAbs(recent_avg, previous_avg),
                                previous_avg)
                  IN  IF quotient = ZeroDivisionError
                      THEN ZeroDivisionError
                      ELSE LET magnitude == FMul(quotient, FInt(100))
                               positive ==
                                   FCmp(recent_avg, previous_avg) > 0
                           IN  IF FCmp(magnitude, FInt(10)) > 0
                               THEN [has_drift |-> TRUE,
                                     drift_message |->
                                         [direction |->
                                              IF positive THEN "increasing"
                                              ELSE "decreasing",
                                          percent_tenths |->
                                              FormatTenths(magnitude)]]
                               ELSE NoDrift

\* seven-point windows of whole-number scores: constant ones, and pairs
\* whose sums are 300 and 330, 310 and 279
Seven(v) == [i \in 1..7 |-> v]

WindowInputs ==
    {Seven(v) : v \in {0, 45, 50, 55, 56}}
    \cup {<<42, 43, 43, 43, 43, 43, 43>>, <<47, 47, 47, 47, 47, 47, 48>>,
          <<44, 44, 44, 44, 44, 45, 45>>, <<39, 40, 40, 40, 40, 40, 40>>}

\* trends have at most MaxDriftPoints points
MaxDriftPoints == 15

\* the last n points, n <= MaxDriftPoints, of older points of score 70
\* followed by two windows
TrendDataInputs ==
    {LastN([i \in 1..(MaxDriftPoints - 14) |-> [score |-> RInt(70)]]
           \o [i \in 1..7 |-> [score |-> RInt(previous[i])]]
           \o [i \in 1..7 |-> [score |-> RInt(recent[i])]], n) :
        previous \in WindowInputs, recent \in WindowInputs,
        n \in 0..MaxDriftPoints}

InitDrift ==
    /\ pc = "call"
    /\ fn = "detect_drift"
    /\ args \in [trend_data : TrendDataInputs]
    /\ ret = NoResult
    /\ NoService

CallDetectDrift ==
    /\ pc = "call"
    /\ fn = "detect_drift"
    /\ ret' = detect_drift(args.trend_data)
    /\ pc' = "done"
    /\ UNCHANGED <<fn, args, service>>

NextDrift == CallDetectDrift

SpecDrift == InitDrift /\ [][NextDrift]_vars

DriftDone == pc = "done" /\ fn = "detect_drift"

\* the sum of the scores of points[from..to], which are whole numbers
RECURSIVE ScoreSum(_, _, _)
ScoreSum(points, from, to) ==
    IF from > to THEN 0
    ELSE points[from].score.num + ScoreSum(points, from + 1, to)

\* the sums of the last 7 scores and of the 7 before them
RecentSum(points) == ScoreSum(points, Len(points) - 6, Len(points))

PreviousSum(points) == ScoreSum(points, Len(points) - 13, Len(points) - 7)

\* C15: detect_drift flags drift iff it is given at least 14 points and
\* |(recent_avg - previous_avg) / previous_avg * 100| > 10 strictly, recent
\* the mean of the last 7 scores and previous the mean of the 7 before
\* them; the message says increasing when the percentage is positive and
\* decreasing when it is negative, and is None when drift is not flagged;
\* means 55 against 50 (exactly 10%) are not flagged, 56 against 50 are
\* flagged as increasing. (Stated for the calls that return; the previous
\* mean 0 is the case of C16.)
C15_DriftThreshold ==
    (DriftDone /\ ret # ZeroDivisionError) =>
        LET points == args.trend_data
            enough == Len(points) >= 14
            r == IF enough THEN RecentSum(points) ELSE 0
            p == IF enough THEN PreviousSum(points) ELSE 1
            \* |(r/7 - p/7) / (p/7) * 100| > 10 iff 10 * |r - p| > p
            above == enough /\ 10 * Abs(r - p) > p
        IN  /\ ret.has_drift <=> above
            /\ ret.has_drift =>
                  ret.drift_message.direction =
                      (IF r > p THEN "increasing" ELSE "decreasing")
            /\ ~ret.has_drift => ret.drift_message = None
            /\ (enough /\ r = 7 * 55 /\ p = 7 * 50) => ~ret.has_drift
            /\ (enough /\ r = 7 * 56 /\ p = 7 * 50) =>
                  (ret.has_drift /\ ret.drift_message.direction = "increasing")

\* C16: given at least 14 points whose previous window (points -14..-8) has
\* mean 0, detect_drift returns (False, None) and does not raise.
C16_ZeroPreviousAverage ==
    (DriftDone /\ Len(args.trend_data) >= 14
               /\ PreviousSum(args.trend_data) = 0) =>
        ret = NoDrift

-----------------------------------------------------------------------------
(* services/statistical_analyzer.py: generate_historical_trend             *)
(* Scores are exact rationals here, as in calculate_zone_status. Times are *)
(* whole days: utcnow is the day of the call, timedelta(days = i) is i.    *)

RMax(a, b) == IF RGe(a, b) THEN a ELSE b

\* round(x, 2) for x >= 0: the nearest hundredth, ties to even
RRoundHundredths(x) ==
    LET h == RMul(x, RInt(100))
        f == RFloor(h)
        rem == RSub(h, RInt(f))
        up == RGt(rem, Rat(1, 2)) \/ (rem = Rat(1, 2) /\ f % 2 = 1)
    IN  Rat(IF up THEN f + 1 ELSE f, 100)

\* the thresholds used when baseline is None
TrendDefaultBaseline ==
    [green_zone_max |-> RInt(75), yellow_zone_max |-> RInt(85)]

\* the loop body for the point i days before the call, with or without
\* the clamp max(0, min(100, score))
TrendPointVariant(current_score, days, baseline, utcnow, stream, i, clamp) ==
    LET progress == Rat(days - i, days)
        base_score == RInt(70)
        score_delta == RSub(current_score, base_score)
        trended == RAdd(base_score, RMul(score_delta, progress))
        noisy == RAdd(trended, uniform(RInt(-3), RInt(3),
                                       StreamAt(stream, days - i + 1)))
        score == IF clamp THEN RMax(RInt(0), RMin(RInt(100), noisy))
                 ELSE noisy
    IN  [timestamp |-> utcnow - i,
         score |-> RRoundHundredths(score),
         zone |-> calculate_zone_status(score, baseline)]

\* the loop body of generate_historical_trend: the score is clamped, the
\* zone is that of the clamped score, the reported score is rounded
TrendPoint(current_score, days, baseline, utcnow, stream, i) ==
    LET progress == Rat(days - i, days)
        base_score == RInt(70)
        score_delta == RSub(current_score, base_score)
        trended == RAdd(base_score, RMul(score_delta, progress))
        noisy == RAdd(trended, uniform(RInt(-3), RInt(3),
                                       StreamAt(stream, days - i + 1)))
        score == RMax(RInt(0), RMin(RInt(100), noisy))
        zone == calculate_zone_status(score, baseline)
    IN  [timestamp |-> utcnow - i,
         score |-> RRoundHundredths(score),
         zone |-> zone]

\* generate_historical_trend whose last point is the day of the call
generate_historical_trend_through_today(current_score, days, baseline, utcnow, stream) ==
    LET b == IF baseline = None THEN TrendDefaultBaseline ELSE baseline
    IN  [k \in 1..IntMax(days, 0) |->
            TrendPointVariant(current_score, days, b, utcnow, stream,
                              days - k, TRUE)]

\* generate_historical_trend without the clamp to [0, 100]
generate_historical_trend_unclamped(current_score, days, baseline, utcnow, stream) ==
    LET b == IF baseline = None THEN TrendDefaultBaseline ELSE baseline
    IN  [k \in 1..IntMax(days, 0) |->
            TrendPointVariant(current_score, days, b, utcnow, stream,
                              days - k + 1, FALSE)]

\* generate_historical_trend that starts the trend at 0 instead of 70
generate_historical_trend_from_zero(current_score, days, baseline, utcnow, stream) ==
    LET b == IF baseline = None THEN TrendDefaultBaseline ELSE baseline
    IN  [k \in 1..IntMax(days, 0) |->
            LET noisy == RAdd(RMul(current_score, Rat(k - 1, days)),
                              uniform(RInt(-3), RInt(3), StreamAt(stream, k)))
                score == RMax(RInt(0), RMin(RInt(100), noisy))
            IN  [timestamp |-> utcnow - (days - k + 1),
                 score |-> RRoundHundredths(score),
                 zone |-> calculate_zone_status(score, b)]]

\* range(days, 0, -1) is days, days - 1, ..., 1, and empty for days <= 0;
\* stream is the sequence of values random() returns
generate_historical_trend(current_score, days, baseline, utcnow, stream) ==
    LET b == IF baseline = None THEN TrendDefaultBaseline ELSE baseline
    IN  [k \in 1..IntMax(days, 0) |->
            TrendPoint(current_score, days, b, utcnow, stream, days - k + 1)]

\* days from -1 to MaxDays, and the 30 of get_trends
MaxDays == 3

DaysInputs == ((0 - 1)..MaxDays) \cup {30}

CurrentScoreInputs == {RInt(0), RInt(70), RInt(80), RInt(100)}

\* None, the default baseline of get_trends, and one with other thresholds
TrendBaselineInputs ==
    {None,
     [green_zone_max |-> RInt(80), yellow_zone_max |-> RInt(90)],
     [green_zone_max |-> RInt(70), yellow_zone_max |-> RInt(85)]}

\* values of random() that make uniform(-3, 3) return -3, 0, 0.004, 2.998
TrendUnitInputs == {Rat(0, 1), Rat(1, 2), Rat(751, 1500), Rat(2999, 3000)}

\* streams repeat after TrendStreamPeriod values
TrendStreamPeriod == 3

TrendStreamInputs == [1..TrendStreamPeriod -> TrendUnitInputs]

UtcNowInputs == {20000, 20395}

InitTrend ==
    /\ pc = "call"
    /\ fn = "generate_historical_trend"
    /\ args \in [current_score : CurrentScoreInputs,
                 days : DaysInputs,
                 baseline : TrendBaselineInputs,
                 utcnow : UtcNowInputs,
                 stream : TrendStreamInputs]
    /\ ret = NoResult
    /\ NoService

CallTrend ==
    /\ pc = "call"
    /\ fn = "generate_historical_trend"
    /\ ret' = generate_historical_trend(args.current_score, args.days,
                                        args.baseline, args.utcnow,
                                        args.stream)
    /\ pc' = "done"
    /\ UNCHANGED <<fn, args, service>>

NextTrend == CallTrend

SpecTrend == InitTrend /\ [][NextTrend]_vars

TrendDone == pc = "done" /\ fn = "generate_historical_trend"

\* C17: generate_historical_trend returns exactly `days` points, oldest
\* first: point k (from 0) is timestamped days - k days before the call, so
\* timestamps grow by one day per point, the first is `days` days ago and
\* the last one day ago (the day of the call is never included); for
\* days <= 0 the result is the empty list, and nothing is divided by zero.
C17_TrendTimestamps ==
    TrendDone =>
        LET days == args.days
            n == Len(ret)
        IN  /\ days > 0 => n = days
            /\ days <= 0 => ret = <<>>
            /\ \A k \in 0..(n - 1) :
                  /\ ret[k + 1].timestamp = args.utcnow - (days - k)
                  /\ ret[k + 1].timestamp < args.utcnow
            /\ \A k \in 1..(n - 1) :
                  ret[k + 1].timestamp = ret[k].timestamp + 1
            /\ n > 0 => /\ ret[1].timestamp = args.utcnow - days
                        /\ ret[n].timestamp = args.utcnow - 1

C17_Witness ==
    /\ TrendDone
    /\ args.days = 30
    /\ Len(ret) = 30
    /\ ret[1].timestamp = args.utcnow - 30
    /\ ret[30].timestamp = args.utcnow - 1

\* the noise of point k (from 0): the k+1-th draw of uniform(-3, 3)
NoiseOf(stream, k) == uniform(RInt(-3), RInt(3), StreamAt(stream, k + 1))

\* clamp(70 + (current_score - 70) * k / days + noise_k, 0, 100)
ClampedTrendScore(current_score, days, stream, k) ==
    LET x == RAdd(RAdd(RInt(70),
                       RDiv(RMul(RSub(current_score, RInt(70)), RInt(k)),
                            RInt(days))),
                  NoiseOf(stream, k))
    IN  IF RLt(x, RInt(0)) THEN RInt(0)
        ELSE IF RGt(x, RInt(100)) THEN RInt(100) ELSE x

\* C18 as stated: the score of point k (from 0) is
\* clamp(70 + (current_score - 70) * k / days + noise_k, 0, 100) for every
\* current_score and noise in [-3, 3]; every score is in [0, 100], the
\* first point is within 3 of 70, and the weight k / days stays below 1.
C18_ScoreFormula ==
    TrendDone =>
        \A k \in 0..(Len(ret) - 1) :
            /\ ret[k + 1].score =
                   ClampedTrendScore(args.current_score, args.days,
                                     args.stream, k)
            /\ RGe(ret[k + 1].score, RInt(0))
            /\ RLe(ret[k + 1].score, RInt(100))
            /\ k < args.days

\* C18: the score of point k (from 0) is
\* clamp(70 + (current_score - 70) * k / days + noise_k, 0, 100) rounded to
\* two decimals: a whole number of hundredths at most 0.005 away from it;
\* every score is in [0, 100], the first point is within 3 of 70, and the
\* weight k / days stays below 1 (the last point has (days - 1) / days).
C18_RoundedScoreFormula ==
    TrendDone =>
        /\ \A k \in 0..(Len(ret) - 1) :
              LET exact == ClampedTrendScore(args.current_score, args.days,
                                             args.stream, k)
                  score == ret[k + 1].score
              IN  /\ RMul(score, RInt(100)).den = 1
                  /\ RLe(RSub(score, exact), Rat(1, 200))
                  /\ RLe(RSub(exact, score), Rat(1, 200))
                  /\ RGe(score, RInt(0))
                  /\ RLe(score, RInt(100))
                  /\ k < args.days
        /\ Len(ret) > 0 =>
              /\ RGe(ret[1].score, RInt(67))
              /\ RLe(ret[1].score, RInt(73))
              /\ Len(ret) = args.days

\* the last of 30 points is clamped to 100 (70 + 30 * 29 / 30 + 2.998), and
\* the second is reported as 71.0, rounded from 71.004
C18_Witness ==
    /\ TrendDone
    /\ args.days = 30
    /\ args.current_score = RInt(100)
    /\ RGt(RAdd(RInt(99), NoiseOf(args.stream, 29)), RInt(100))
    /\ ret[30].score = RInt(100)
    /\ NoiseOf(args.stream, 1) = Rat(4, 1000)
    /\ ret[2].score = RInt(71)

\* C19: the zone of every point equals calculate_zone_status of the score
\* reported in that point and the baseline supplied (the thresholds 75 and
\* 85 when baseline is None): the zone can be derived again from the score
\* stored with it.
C19_ZoneFromReportedScore ==
    TrendDone =>
        LET baseline == IF args.baseline = None THEN TrendDefaultBaseline
                        ELSE args.baseline
        IN  \A k \in 1..Len(ret) :
                ret[k].zone = calculate_zone_status(ret[k].score, baseline)

-----------------------------------------------------------------------------
(* routers/trends.py: get_trends                                           *)

\* utils/error_handlers.py: the HTTPException of raise_not_found
raise_not_found(resource) ==
    [raised |-> "HTTPException", status_code |-> 404, resource |-> resource]

\* `not evaluation.overall_score`: None and 0.0 are falsy
Falsy(overall_score) == overall_score = None \/ overall_score = RInt(0)

\* lines 44 to 50, the response; a ZeroDivisionError of
\* detect_drift leaves the handler as it is
TrendResponse(evaluation, trend_data, drift) ==
    IF drift = ZeroDivisionError
    THEN ZeroDivisionError
    ELSE [data_points |-> trend_data,
          current_zone |-> evaluation.zone_status,
          drift_alert |-> drift.has_drift,
          drift_message |-> drift.drift_message]

\* the handler once trend_data is generated
TrendsWithDrift(evaluation, trend_data) ==
    TrendResponse(evaluation, trend_data, detect_drift(trend_data))

\* evaluation is the row the query returns, or None
get_trends(evaluation, utcnow, stream) ==
    IF evaluation = None
    THEN raise_not_found("Evaluation")
    ELSE IF Falsy(evaluation.overall_score)
    THEN raise_not_found("Trends")
    ELSE TrendsWithDrift(evaluation,
                         generate_historical_trend(evaluation.overall_score,
                                                   30, get_default_baseline,
                                                   utcnow, stream))

\* overall scores of stored evaluations: unset, 0, the smallest positive
\* score of two decimals, and scores in every zone
OverallScoreInputs ==
    {None, RInt(0), Rat(1, 100), RInt(40), RInt(70), RInt(80), Rat(8567, 100),
     RInt(100)}

\* values of random() during the handler: noise -3, 0 and nearly 3
GetTrendsStreamInputs ==
    [1..TrendStreamPeriod -> {Rat(0, 1), Rat(1, 2), Rat(2999, 3000)}]

EvaluationRowInputs ==
    {None} \cup
    {[overall_score |-> s,
      zone_status |-> IF s = None THEN None
                      ELSE calculate_zone_status(s, get_default_baseline)] :
        s \in OverallScoreInputs}

InitTrends ==
    /\ pc = "call"
    /\ fn = "get_trends"
    /\ args \in [evaluation : EvaluationRowInputs,
                 utcnow : UtcNowInputs,
                 stream : GetTrendsStreamInputs]
    /\ ret = NoResult
    /\ NoService

CallGetTrends ==
    /\ pc = "call"
    /\ fn = "get_trends"
    /\ ret' = get_trends(args.evaluation, args.utcnow, args.stream)
    /\ pc' = "done"
    /\ UNCHANGED <<fn, args, service>>

NextTrends == CallGetTrends

SpecTrends == InitTrends /\ [][NextTrends]_vars

TrendsDone == pc = "done" /\ fn = "get_trends"

\* C30: on the get_trends path (30 days, a score the handler accepts, any
\* noise) every point of the window detect_drift divides by, points 17 to
\* 23 of the 30, has a score of at least 70 * 8 / 30 - 3 > 15, and
\* detect_drift does not raise ZeroDivisionError.
C30_PreviousWindowPositive ==
    (TrendsDone /\ args.evaluation # None
                /\ ~Falsy(args.evaluation.overall_score))
        => /\ ret # ZeroDivisionError
           /\ Len(ret.data_points) = 30
           /\ \A k \in 17..23 :
                  /\ RGe(ret.data_points[k].score,
                         RSub(Rat(70 * 8, 30), RInt(3)))
                  /\ RGt(ret.data_points[k].score, RInt(15))

\* the lowest score of the window: overall score 0.01 and noise -3 give
\* point 23 the score round(70 - 69.99 * 22 / 30 - 3, 2) = 15.67
C30_Witness ==
    /\ TrendsDone
    /\ args.evaluation # None
    /\ args.evaluation.overall_score = Rat(1, 100)
    /\ \A k \in 1..TrendStreamPeriod : args.stream[k] = RInt(0)
    /\ ret.data_points[23].score = Rat(1567, 100)
    /\ ret.drift_alert

-----------------------------------------------------------------------------
(* routers/evaluations.py: what _process_evaluation computes               *)

\* the findings as calculate_overall_score reads them: confidence_level and
\* severity_score are the doubles nearest to the detectors' values
FloatFindings(findings) ==
    [i \in 1..Len(findings) |->
        [confidence_level |->
             FDec(findings[i].confidence_level.num,
                  findings[i].confidence_level.den),
         severity_score |->
             FDec(findings[i].severity_score.num,
                  findings[i].severity_score.den)]]

\* the decimal of two places a float rounded by round(x, 2) stands for
Hundredths(x) ==
    IF x = FZero THEN RInt(0)
    ELSE LET N == BMul(x.m, BFromInt(100))
         IN  IF x.e >= 0 THEN Rat(BToInt(BShl(N, x.e)), 100)
             ELSE LET s == 0 - x.e
                      q == BShr(N, s)
                      rem == BSub(N, BShl(q, s))
                      c == BCmp(rem, BShl(BOne, s - 1))
                      up == c > 0 \/ (c = 0 /\ BIsOdd(q))
                  IN  Rat(BToInt(IF up THEN BAdd(q, BOne) ELSE q), 100)

\* lines 125 to 147: the zone of the score, and the recommendations
ScoredResult(findings, overall_score) ==
    [findings |-> findings,
     recommendations |-> generate_recommendations(findings),
     overall_score |-> overall_score,
     zone_status |-> calculate_zone_status(overall_score,
                                           get_default_baseline)]

\* lines 124 to 147: the analysis of the findings run_detection returned
AnalysisResult(findings) ==
    ScoredResult(findings,
                 Hundredths(calculate_overall_score(FloatFindings(findings))))

\* lines 104 to 147 without the session: the findings, the recommendations
\* and the score and zone the evaluation is given
EvaluationResult(heuristic_types, iteration_count, stream) ==
    AnalysisResult(run_detection(heuristic_types, iteration_count, stream))

\* schemas/evaluation.py, validate_heuristic_types: every entry is one of
\* the five names; Field(..., min_length=1): the list is not empty
validate_heuristic_types(v) ==
    /\ Len(v) >= 1
    /\ \A i \in 1..Len(v) : v[i] \in HeuristicType

ValidHeuristicTypesInputs ==
    {v \in HeuristicTypesInputs : validate_heuristic_types(v)}

\* an iteration count within Field(..., ge=10, le=1000) whose square root
\* is rational
ValidIterationInputs == {16}

\* values of random(): the bottom of the range, 4/5 and nearly the top
ResultUnitInputs == {Rat(0, 1), Rat(4, 5), Rat(2999, 3000)}

ResultStreamInputs == [1..StreamPeriod -> ResultUnitInputs]

InitResult ==
    /\ pc = "call"
    /\ fn = "_process_evaluation"
    /\ args \in [heuristic_types : ValidHeuristicTypesInputs,
                 iteration_count : ValidIterationInputs,
                 stream : ResultStreamInputs]
    /\ ret = NoResult
    /\ NoService

CallResult ==
    /\ pc = "call"
    /\ fn = "_process_evaluation"
    /\ ret' = EvaluationResult(args.heuristic_types, args.iteration_count,
                               args.stream)
    /\ pc' = "done"
    /\ UNCHANGED <<fn, args, service>>

NextResult == CallResult

SpecResult == InitResult /\ [][NextResult]_vars

ResultDone == pc = "done" /\ fn = "_process_evaluation"

\* C28: every evaluation that _process_evaluation completes has
\* overall_score <= 80 and zone_status green: every severity_score is at
\* most 80 (75.25 for loss_aversion), so is their weighted average, and the
\* default baseline's green_zone_max is 80, compared inclusively.
C28_AlwaysGreen ==
    ResultDone =>
        /\ \A i \in 1..Len(ret.findings) :
              RLe(ret.findings[i].severity_score,
                  IF ret.findings[i].heuristic_type = "loss_aversion"
                  THEN Rat(7525, 100) ELSE RInt(80))
        /\ RLe(ret.overall_score, RInt(80))
        /\ ret.zone_status = "green"

\* anchoring alone with every draw at 59.98: severity 79.99 and overall
\* score 79.99, which is green
C28_Witness ==
    /\ ResultDone
    /\ args.heuristic_types = <<"anchoring">>
    /\ ret.findings[1].detection_count = args.iteration_count
    /\ ret.findings[1].severity_score = Rat(7999, 100)
    /\ ret.overall_score = Rat(7999, 100)
    /\ ret.zone_status = "green"

-----------------------------------------------------------------------------
(* routers/evaluations.py: create_evaluation, execute_evaluation,          *)
(* delete_evaluation and the background task _process_evaluation.          *)
(*                                                                         *)
(* The handlers are plain functions, which the framework runs on worker    *)
(* threads, each with a database session of its own; a background task     *)
(* runs after the response of the request that added it and opens its own  *)
(* session.  A session reads committed rows, keeps what the code adds or   *)
(* assigns, and writes all of it when it commits.  A handler or task       *)
(* therefore takes one step for each access to the database that other     *)
(* sessions can observe: execute_evaluation a step that reads the row and  *)
(* a step that commits, and so does _process_evaluation; create and        *)
(* delete commit once.                                                     *)

EvaluationStatus == {"pending", "running", "completed", "failed"}

\* the place in db_evaluations of a row that was deleted; ids are uuids and
\* never used again
Deleted == [deleted |-> TRUE]

\* datetime.utcnow() of the task
UtcNow == [utcnow |-> TRUE]

\* utils/error_handlers.py: the HTTPException of raise_validation_error
raise_validation_error(field) ==
    [raised |-> "HTTPException", status_code |-> 422, field |-> field]

\* main.py, global_exception_handler: the answer to any other exception
InternalError(type) ==
    [raised |-> "Exception", status_code |-> 500, type |-> type]

Response(status_code) == [status_code |-> status_code]

\* db.query(Evaluation).filter(Evaluation.id == evaluation_id).first()
QueryEvaluation(evaluation_id) ==
    IF /\ evaluation_id \in 1..Len(db_evaluations)
       /\ db_evaluations[evaluation_id] # Deleted
    THEN db_evaluations[evaluation_id]
    ELSE None

\* Evaluation(ai_system_name=..., heuristic_types=..., iteration_count=...,
\* status=EvaluationStatus.PENDING) with the columns' defaults
NewEvaluation(id, heuristic_types, iteration_count) ==
    [id |-> id,
     heuristic_types |-> heuristic_types,
     iteration_count |-> iteration_count,
     status |-> "pending",
     completed_at |-> None,
     overall_score |-> None,
     zone_status |-> None]

\* HeuristicFinding(evaluation_id=evaluation.id, ...) for each finding
FindingRows(evaluation_id, findings) ==
    [i \in 1..Len(findings) |->
        [evaluation_id |-> evaluation_id] @@ findings[i]]

\* Recommendation(evaluation_id=evaluation.id, ...) for each recommendation
RecommendationRows(evaluation_id, recs) ==
    [i \in 1..Len(recs) |-> [evaluation_id |-> evaluation_id] @@ recs[i]]

\* the rows of a table that belong to an evaluation
RowsOf(table, evaluation_id) ==
    SelectSeq(table, LAMBDA row : row.evaluation_id = evaluation_id)

\* the rows of a table that belong to other evaluations
RowsNotOf(table, evaluation_id) ==
    SelectSeq(table, LAMBDA row : row.evaluation_id # evaluation_id)

\* at most MaxRequests requests arrive and at most MaxEvaluations rows are
\* created
MaxRequests == 4

MaxEvaluations == 2

\* request bodies: lists of heuristic types that pass validation, one of
\* them naming a type twice, and one that does not
CreateHeuristicTypesInputs ==
    {<<"anchoring">>, <<"anchoring", "anchoring">>,
     <<"loss_aversion", "sunk_cost">>, <<"unknown_type">>}

\* iteration counts: one below the accepted range and one within it
CreateIterationInputs == {4, 16}

\* ids in request paths: every row's, and one no row has
EvaluationIdInputs == 1..(MaxEvaluations + 1)

\* values of random() during a task: nothing detected, or everything
ServiceStreamInputs == {<<Rat(0, 1)>>, <<Rat(4, 5)>>}

\* what the tasks of the model compute, for every row create_evaluation
\* can store and every stream
TaskResults ==
    [heuristic_types \in {v \in CreateHeuristicTypesInputs :
                             validate_heuristic_types(v)},
     iteration_count \in {n \in CreateIterationInputs : 10 <= n /\ n <= 1000},
     stream \in ServiceStreamInputs |->
        EvaluationResult(heuristic_types, iteration_count, stream)]

\* a request or task between two of its database accesses
MidFlight ==
    \/ \E r \in 1..Len(requests) : requests[r].pc = "checked"
    \/ \E i \in 1..Len(tasks) : tasks[i].pc = "found"

Request(handler, evaluation_id, position, response) ==
    [handler |-> handler, evaluation_id |-> evaluation_id,
     pc |-> position, response |-> response]

Task(evaluation_id, position, outcome) ==
    [evaluation_id |-> evaluation_id, pc |-> position, outcome |-> outcome]

InitEvaluations ==
    /\ pc = "serve"
    /\ fn = "evaluations"
    /\ args = None
    /\ ret = NoResult
    /\ NoService

\* the variables of the specifications of single functions
call == <<pc, fn, args, ret>>

tables == <<db_evaluations, db_findings, db_recommendations>>

\* POST /api/evaluations with a body EvaluationCreate rejects, or with an
\* iteration_count the handler rejects: 422, nothing is stored
CreateRejected(heuristic_types, iteration_count) ==
    /\ Len(requests) < MaxRequests
    /\ ~validate_heuristic_types(heuristic_types)
           \/ ~(10 <= iteration_count /\ iteration_count <= 1000)
    /\ requests' =
           Append(requests,
                  Request("create_evaluation", None, "done",
                          raise_validation_error(
                              IF ~validate_heuristic_types(heuristic_types)
                              THEN "heuristic_types"
                              ELSE "iteration_count")))
    /\ UNCHANGED <<call, tables, tasks>>

\* create_evaluation: the row is added with status PENDING and committed
CreateEvaluation(heuristic_types, iteration_count) ==
    /\ Len(requests) < MaxRequests
    /\ Len(db_evaluations) < MaxEvaluations
    /\ validate_heuristic_types(heuristic_types)
    /\ 10 <= iteration_count /\ iteration_count <= 1000
    /\ LET id == Len(db_evaluations) + 1
       IN  /\ db_evaluations' =
                  Append(db_evaluations,
                         NewEvaluation(id, heuristic_types, iteration_count))
           /\ requests' =
                  Append(requests,
                         Request("create_evaluation", id, "done",
                                 Response(201)))
    /\ UNCHANGED <<call, db_findings, db_recommendations, tasks>>

\* create_evaluation never sets user_id, a column declared nullable=False:
\* where the table enforces it, db.commit() raises IntegrityError and no
\* row is stored
CreateIntegrityError(heuristic_types, iteration_count) ==
    /\ Len(requests) < MaxRequests
    /\ validate_heuristic_types(heuristic_types)
    /\ 10 <= iteration_count /\ iteration_count <= 1000
    /\ requests' =
           Append(requests,
                  Request("create_evaluation", None, "done",
                          InternalError("IntegrityError")))
    /\ UNCHANGED <<call, tables, tasks>>

\* execute_evaluation without the test of the status
ExecuteQuery_any_status(evaluation_id) ==
    /\ Len(requests) < MaxRequests
    /\ LET evaluation == QueryEvaluation(evaluation_id)
       IN  requests' =
               Append(requests,
                      IF evaluation = None
                      THEN Request("execute_evaluation", evaluation_id,
                                   "done", raise_not_found("Evaluation"))
                      ELSE Request("execute_evaluation", evaluation_id,
                                   "checked", None))
    /\ UNCHANGED <<call, tables, tasks>>

\* execute_evaluation, lines 170 to 180: the row is read; 404 without a
\* row, 422 unless its status is PENDING
ExecuteQuery(evaluation_id) ==
    /\ Len(requests) < MaxRequests
    /\ LET evaluation == QueryEvaluation(evaluation_id)
       IN  requests' =
               Append(requests,
                      IF evaluation = None
                      THEN Request("execute_evaluation", evaluation_id,
                                   "done", raise_not_found("Evaluation"))
                      ELSE IF evaluation.status # "pending"
                      THEN Request("execute_evaluation", evaluation_id,
                                   "done", raise_validation_error("status"))
                      ELSE Request("execute_evaluation", evaluation_id,
                                   "checked", None))
    /\ UNCHANGED <<call, tables, tasks>>

\* execute_evaluation, lines 183 to 196: status RUNNING is committed, the
\* task is added and the request answered
ExecuteCommit(r) ==
    /\ r \in 1..Len(requests)
    /\ requests[r].pc = "checked"
    /\ LET id == requests[r].evaluation_id
       IN  /\ QueryEvaluation(id) # None
           /\ db_evaluations' =
                  [db_evaluations EXCEPT ![id].status = "running"]
           /\ tasks' = Append(tasks, Task(id, "queued", None))
           /\ requests' =
                  [requests EXCEPT
                      ![r] = Request("execute_evaluation", id, "done",
                                     Response(200))]
    /\ UNCHANGED <<call, db_findings, db_recommendations>>

\* execute_evaluation when the row was deleted after the request read it:
\* the UPDATE matches no row, db.commit() raises and no task is added
ExecuteCommitStale(r) ==
    /\ r \in 1..Len(requests)
    /\ requests[r].pc = "checked"
    /\ QueryEvaluation(requests[r].evaluation_id) = None
    /\ requests' =
           [requests EXCEPT
               ![r] = Request("execute_evaluation", requests[r].evaluation_id,
                              "done", InternalError("StaleDataError"))]
    /\ UNCHANGED <<call, tables, tasks>>

\* delete_evaluation: 404 without a row; otherwise the row goes, and with
\* it (cascade="all, delete-orphan") its findings and recommendations
DeleteEvaluation(evaluation_id) ==
    /\ Len(requests) < MaxRequests
    /\ IF QueryEvaluation(evaluation_id) = None
       THEN /\ requests' =
                   Append(requests,
                          Request("delete_evaluation", evaluation_id, "done",
                                  raise_not_found("Evaluation")))
            /\ UNCHANGED tables
       ELSE /\ db_evaluations' =
                   [db_evaluations EXCEPT ![evaluation_id] = Deleted]
            /\ db_findings' = RowsNotOf(db_findings, evaluation_id)
            /\ db_recommendations' =
                   RowsNotOf(db_recommendations, evaluation_id)
            /\ requests' =
                   Append(requests,
                          Request("delete_evaluation", evaluation_id, "done",
                                  Response(204)))
    /\ UNCHANGED <<call, tasks>>

\* _process_evaluation, lines 97 to 102: the task opens its session and
\* reads the row; without a row it returns
ProcessQuery(i) ==
    /\ i \in 1..Len(tasks)
    /\ tasks[i].pc = "queued"
    /\ tasks' =
           [tasks EXCEPT
               ![i] = IF QueryEvaluation(tasks[i].evaluation_id) = None
                      THEN Task(tasks[i].evaluation_id, "done", "not_found")
                      ELSE Task(tasks[i].evaluation_id, "found", None)]
    /\ UNCHANGED <<call, tables, requests>>

\* lines 107 to 149: the rows of the findings and the recommendations are
\* added, the evaluation is updated and db.commit() writes all of it
CommitResult(i, id, result) ==
    /\ db_evaluations' =
           [db_evaluations EXCEPT
               ![id].status = "completed",
               ![id].completed_at = UtcNow,
               ![id].overall_score = result.overall_score,
               ![id].zone_status = result.zone_status]
    /\ db_findings' = db_findings \o FindingRows(id, result.findings)
    /\ db_recommendations' =
           db_recommendations
               \o RecommendationRows(id, result.recommendations)
    /\ tasks' = [tasks EXCEPT ![i] = Task(id, "done", "completed")]
    /\ UNCHANGED <<call, requests>>

\* _process_evaluation, lines 104 to 149, nothing raising: the findings,
\* the recommendations and the evaluation's status, completed_at,
\* overall_score and zone_status are committed together
ProcessCommit(i, stream) ==
    /\ i \in 1..Len(tasks)
    /\ tasks[i].pc = "found"
    /\ QueryEvaluation(tasks[i].evaluation_id) # None
    /\ CommitResult(i, tasks[i].evaluation_id,
                    TaskResults[
                        QueryEvaluation(tasks[i].evaluation_id).heuristic_types,
                        QueryEvaluation(tasks[i].evaluation_id).iteration_count,
                        stream])

\* the statements of the try block in which an exception leaves the
\* session as it is: run_detection (nothing added yet) and the analysis of
\* lines 124 to 129 (the findings added)
RaiseStages == {"detection", "analysis"}

\* _process_evaluation when a statement before db.commit() raises: the
\* handler of lines 151 to 155 reads the row again, sets FAILED and
\* commits the session, which still holds what db.add was given (there is
\* no db.rollback())
ProcessRaises(i, stage, stream) ==
    /\ i \in 1..Len(tasks)
    /\ tasks[i].pc = "found"
    /\ LET id == tasks[i].evaluation_id
           evaluation == QueryEvaluation(id)
       IN  /\ evaluation # None
           /\ db_evaluations' =
                  [db_evaluations EXCEPT ![id].status = "failed"]
           /\ db_findings' =
                  IF stage = "detection" THEN db_findings
                  ELSE db_findings
                       \o FindingRows(id,
                              run_detection(evaluation.heuristic_types,
                                            evaluation.iteration_count,
                                            stream))
           /\ tasks' = [tasks EXCEPT ![i] = Task(id, "done", "failed")]
    /\ UNCHANGED <<call, db_recommendations, requests>>

\* _process_evaluation when db.commit() of line 149 raises while it
\* flushes: the transaction is rolled back and the session refuses further
\* use until rollback() is called, so the query of line 152 raises and the
\* task ends with nothing written
ProcessCommitRaises(i) ==
    /\ i \in 1..Len(tasks)
    /\ tasks[i].pc = "found"
    /\ QueryEvaluation(tasks[i].evaluation_id) # None
    /\ tasks' =
           [tasks EXCEPT
               ![i] = Task(tasks[i].evaluation_id, "done", "raised")]
    /\ UNCHANGED <<call, tables, requests>>

\* _process_evaluation when the row was deleted after the task read it:
\* whatever the task flushes next (rows that refer to the evaluation, or
\* the UPDATE of its row) fails, and nothing is written
ProcessGone(i) ==
    /\ i \in 1..Len(tasks)
    /\ tasks[i].pc = "found"
    /\ QueryEvaluation(tasks[i].evaluation_id) = None
    /\ tasks' =
           [tasks EXCEPT
               ![i] = Task(tasks[i].evaluation_id, "done", "raised")]
    /\ UNCHANGED <<call, tables, requests>>

\* requests arriving
Arrive ==
    \/ \E heuristic_types \in CreateHeuristicTypesInputs,
          iteration_count \in CreateIterationInputs :
           \/ CreateRejected(heuristic_types, iteration_count)
           \/ CreateEvaluation(heuristic_types, iteration_count)
           \/ CreateIntegrityError(heuristic_types, iteration_count)
    \/ \E evaluation_id \in EvaluationIdInputs :
           \/ ExecuteQuery(evaluation_id)
           \/ DeleteEvaluation(evaluation_id)

\* a request or a task going on after its first database access
Continue ==
    \/ \E r \in 1..MaxRequests : ExecuteCommit(r)
    \/ \E i \in 1..MaxRequests, stream \in ServiceStreamInputs :
           \/ ProcessCommit(i, stream)
           \/ \E stage \in RaiseStages : ProcessRaises(i, stage, stream)
    \/ \E i \in 1..MaxRequests : ProcessCommitRaises(i)

\* steps that only requests and tasks running at the same time can take
Overtaken ==
    \/ \E r \in 1..MaxRequests : ExecuteCommitStale(r)
    \/ \E i \in 1..MaxRequests : ProcessGone(i)

\* Requests and tasks run on threads of their own, in any interleaving.
NextEvaluations ==
    \/ Arrive
    \/ \E i \in 1..MaxRequests : ProcessQuery(i)
    \/ Continue
    \/ Overtaken

SpecEvaluations == InitEvaluations /\ [][NextEvaluations]_vars

\* One request or task at a time: nothing starts while another is between
\* its database accesses.
NextSequential ==
    \/ ~MidFlight /\ Arrive
    \/ ~MidFlight /\ \E i \in 1..MaxRequests : ProcessQuery(i)
    \/ Continue

SpecSequential == InitEvaluations /\ [][NextSequential]_vars

\* the rows of db_evaluations that were not deleted
StoredIds == {id \in 1..Len(db_evaluations) : db_evaluations[id] # Deleted}

\* the tasks added for an evaluation
TasksOf(evaluation_id) ==
    SelectSeq(tasks, LAMBDA t : t.evaluation_id = evaluation_id)

\* C21: an evaluation that create_evaluation accepted and that was
\* processed once has at most one persisted finding for each heuristic
\* type.
C21_OneFindingPerType ==
    \A id \in StoredIds :
        Len(TasksOf(id)) <= 1 =>
            \A t \in HeuristicType :
                Len(SelectSeq(RowsOf(db_findings, id),
                              LAMBDA row : row.heuristic_type = t)) <= 1

\* C23: whatever the interleaving of execute_evaluation requests for one
\* evaluation, at most one _process_evaluation task is added for it.
C23_SingleDispatch ==
    \A id \in EvaluationIdInputs : Len(TasksOf(id)) <= 1

\* C24: a run of _process_evaluation in which a step raised after the row
\* was found has set the evaluation's status to FAILED, and has set neither
\* overall_score nor zone_status nor completed_at.
C24_RaisedRunEndsFailed ==
    \A i \in 1..Len(tasks) :
        (/\ tasks[i].pc = "done"
         /\ tasks[i].outcome \in {"failed", "raised"}
         /\ tasks[i].evaluation_id \in StoredIds)
            => LET evaluation == db_evaluations[tasks[i].evaluation_id]
               IN  /\ evaluation.status = "failed"
                   /\ evaluation.overall_score = None
                   /\ evaluation.zone_status = None
                   /\ evaluation.completed_at = None

\* C26: once the task of an evaluation that execute_evaluation accepted
\* and nobody deleted has run, the evaluation's status is COMPLETED or
\* FAILED; it is not left RUNNING.
C26_TaskRunFinishes ==
    \A id \in StoredIds :
        (/\ TasksOf(id) # <<>>
         /\ \A i \in 1..Len(tasks) :
                tasks[i].evaluation_id = id => tasks[i].pc = "done")
            => db_evaluations[id].status \in {"completed", "failed"}

\* C27: in every committed state of the database an evaluation has
\* findings or recommendations only if its status is COMPLETED.
C27_RowsOnlyWhenCompleted ==
    \A id \in StoredIds :
        (RowsOf(db_findings, id) # <<>>
            \/ RowsOf(db_recommendations, id) # <<>>)
            => db_evaluations[id].status = "completed"

\* the status changes of one step are those C25 allows
AllowedStatusChange(id) ==
    LET old == db_evaluations[id]
        new == db_evaluations'[id]
    IN  (old # Deleted /\ new # Deleted /\ old.status # new.status) =>
            \/ /\ old.status = "pending"
               /\ new.status = "running"
               /\ \E r \in 1..Len(requests) :
                      /\ requests[r].pc = "checked"
                      /\ requests[r].evaluation_id = id
                      /\ requests'[r].pc = "done"
                      /\ requests'[r].response = Response(200)
            \/ /\ old.status = "running"
               /\ new.status \in {"completed", "failed"}
               /\ \E i \in 1..Len(tasks) :
                      /\ tasks[i].pc = "found"
                      /\ tasks[i].evaluation_id = id
                      /\ tasks'[i].pc = "done"
                      /\ tasks'[i].outcome = new.status

\* a step in which execute_evaluation reads a row whose status is not
\* PENDING answers 422 and changes neither the tables nor the tasks
RejectedUnchanged ==
    (/\ Len(requests') = Len(requests) + 1
     /\ requests'[Len(requests')].handler = "execute_evaluation"
     /\ QueryEvaluation(requests'[Len(requests')].evaluation_id) # None
     /\ QueryEvaluation(requests'[Len(requests')].evaluation_id).status
            # "pending")
        => /\ requests'[Len(requests')].pc = "done"
           /\ requests'[Len(requests')].response =
                  raise_validation_error("status")
           /\ UNCHANGED <<tables, tasks>>

\* C25: when requests and tasks run one after another, a new row has
\* status PENDING and a status changes only from PENDING to RUNNING, by an
\* execute_evaluation that succeeds, and from RUNNING to COMPLETED or
\* FAILED, by _process_evaluation; execute_evaluation on a row that is not
\* PENDING answers with a validation error, adds no task and changes
\* nothing, so COMPLETED and FAILED are final.
C25_StatusTransitions ==
    [][/\ \A id \in 1..Len(db_evaluations') :
              IF id > Len(db_evaluations)
              THEN db_evaluations'[id].status = "pending"
              ELSE AllowedStatusChange(id)
       /\ RejectedUnchanged]_vars

\* an evaluation was executed and completed, and a later execute_evaluation
\* for it was answered 422
C25_Witness ==
    \E id \in StoredIds, r1, r2 \in 1..Len(requests) :
        /\ r1 < r2
        /\ requests[r1].handler = "execute_evaluation"
        /\ requests[r1].evaluation_id = id
        /\ requests[r1].response = Response(200)
        /\ requests[r2].handler = "execute_evaluation"
        /\ requests[r2].evaluation_id = id
        /\ requests[r2].response = raise_validation_error("status")
        /\ db_evaluations[id].status = "completed"
        /\ db_evaluations[id].completed_at = UtcNow
        /\ Len(TasksOf(id)) = 1

=============================================================================
